---- MODULE Spec2Model ----
(***************************************************************************)
(* A model of the blather codec (src/src/codec.rs): the resumable line     *)
(* scanner, the three line decoders, the six binary transfer modes and the *)
(* configuration calls, driven by a host that appends bytes to the input   *)
(* buffer and calls decode.                                                *)
(*                                                                         *)
(* Byte strings are sequences of byte values 0..255.  Option<T> is a       *)
(* sequence of length 0 (None) or 1 (Some).  A HashMap<String,String> is a *)
(* set of <<key, value>> pairs with unique keys.                           *)
(***************************************************************************)
EXTENDS Integers, Sequences, FiniteSets, TLC

VARIABLES
  codec,   \* the Codec struct (codec.rs:96-107)
  inbuf,   \* the host's input buffer, the `buf` argument of decode
  sink,    \* what has been written to the sink installed last (file or writer)
  ret,     \* what the last call returned
  call,    \* the last call made: its name, its size argument, and whether it
           \* is a decode call made after one that asked for more data
  sent,    \* how many bytes the host has appended so far
  ncfg,    \* how many configuration calls the application has made so far
  wire,    \* SpecWire: the bytes on their way to the host, not yet received
  scn,     \* SpecWire: the telegram and the payload that were sent;
           \* SpecApi: the values in the application's hands
  mark     \* history since the last configuration call or completed value

vars == <<codec, inbuf, sink, ret, call, sent, ncfg, wire, scn, mark>>

-----------------------------------------------------------------------------
\* Bounds of the model.

\* Total number of bytes the host appends to the input buffer under Spec.
MaxStream == 3
\* Total number of bytes the host appends to the input buffer under SpecLines.
MaxFrame == 5
\* Total number of bytes the host appends to the input buffer under SpecReconf.
MaxReconf == 4
\* Largest number of bytes considered to follow those received.
MaxExt == 3
\* Largest size argument of a configuration call.
MaxSize == 2
\* Number of configuration calls the application makes.
MaxCalls == 2
\* The maximum line length of a codec built by new_with_max_length.
MaxLine == 2
\* Total number of bytes the host appends to the input buffer under SpecText.
MaxText == 4
\* Lines sent on the wire in a run of whole frames.
MaxLines == 4
\* Longest string handed to a call of the value types.
MaxStr == 3

\* usize::MAX (the model's usize is 31 bits wide).
UsizeMax == 2147483647

\* b'\n', b'\r' and ' '.
LF == 10
CR == 13
SP == 32

\* The bytes the host appends under Spec: LF and the letter 'a'.
Alphabet == {10, 97}

\* The bytes the host appends under SpecLines: LF, CR, space and 'a'.
LineAlphabet == {10, 13, 32, 97}

\* The path names given to expect_file.
Paths == {<<112>>}

-----------------------------------------------------------------------------
\* Option<T>

None == <<>>
Some(x) == <<x>>
IsSome(o) == Len(o) = 1
Unwrap(o) == o[1]

Min(a, b) == IF a < b THEN a ELSE b

\* usize::saturating_add(1)
SatAdd1(x) == IF x >= UsizeMax THEN UsizeMax ELSE x + 1

\* BytesMut::split_to(n): the first n bytes, and what is left.
TakeN(s, n) == SubSeq(s, 1, n)
DropN(s, n) == SubSeq(s, n + 1, Len(s))

-----------------------------------------------------------------------------
\* Characters (the model's strings are ASCII after UTF-8 validation).

IsAsciiAlpha(c) == (c >= 65 /\ c <= 90) \/ (c >= 97 /\ c <= 122)
IsAsciiDigit(c) == c >= 48 /\ c <= 57
IsAsciiPunct(c) ==
  \/ (c >= 33 /\ c <= 47)
  \/ (c >= 58 /\ c <= 64)
  \/ (c >= 91 /\ c <= 96)
  \/ (c >= 123 /\ c <= 126)

is_topic_leading_char(c) == IsAsciiAlpha(c)
is_topic_char(c) == IsAsciiAlpha(c) \/ IsAsciiDigit(c) \/ c = 95 \/ c = 45
is_key_char(c) == IsAsciiAlpha(c) \/ IsAsciiDigit(c) \/ IsAsciiPunct(c)

validate_topic_leading_only(topic) ==
  IF Len(topic) = 0 THEN "Empty or broken topic"
  ELSE IF ~is_topic_leading_char(topic[1]) THEN "Invalid leading topic character"
  ELSE ""

\* validate_topic: "" for Ok(()), else the message of the BadFormat error.
validate_topic(topic) ==
  IF Len(topic) = 0 THEN "Empty or broken topic"
  ELSE IF ~is_topic_leading_char(topic[1]) THEN "Invalid leading topic character"
  ELSE IF \E i \in 2..Len(topic) : ~is_topic_char(topic[i])
       THEN "Invalid topic character"
  ELSE ""

\* validate_param_key: "" for Ok(()), else the message of the BadFormat error.
validate_param_key_allows_empty(key) ==
  IF \E i \in 1..Len(key) : ~is_key_char(key[i])
  THEN "Invalid key character"
  ELSE ""

validate_param_key(key) ==
  IF Len(key) = 0 THEN "Empty or broken key"
  ELSE IF ~is_key_char(key[1]) THEN "Invalid key character"
  ELSE IF \E i \in 2..Len(key) : ~is_key_char(key[i])
       THEN "Invalid key character"
  ELSE ""

\* std::str::from_utf8(buf).is_ok(): well-formed UTF-8 (RFC 3629).
IsCont(b) == b >= 128 /\ b <= 191
RECURSIVE Utf8From(_, _)
Utf8From(s, i) ==
  IF i > Len(s) THEN TRUE
  ELSE LET b == s[i]
           n == Len(s) - i
       IN  IF b < 128 THEN Utf8From(s, i + 1)
           ELSE IF b >= 194 /\ b <= 223
             THEN n >= 1 /\ IsCont(s[i + 1]) /\ Utf8From(s, i + 2)
           ELSE IF b >= 224 /\ b <= 239
             THEN /\ n >= 2
                  /\ IsCont(s[i + 1]) /\ IsCont(s[i + 2])
                  /\ (b = 224 => s[i + 1] >= 160)
                  /\ (b = 237 => s[i + 1] <= 159)
                  /\ Utf8From(s, i + 3)
           ELSE IF b >= 240 /\ b <= 244
             THEN /\ n >= 3
                  /\ IsCont(s[i + 1]) /\ IsCont(s[i + 2]) /\ IsCont(s[i + 3])
                  /\ (b = 240 => s[i + 1] >= 144)
                  /\ (b = 244 => s[i + 1] <= 143)
                  /\ Utf8From(s, i + 4)
           ELSE FALSE

utf8(line) == Utf8From(line, 1)

without_carriage_return_all(s) ==
  LET keep == {k \in 0..Len(s) : k = 0 \/ s[k] # CR}
  IN  TakeN(s, CHOOSE k \in keep : \A j \in keep : j <= k)

without_carriage_return(s) ==
  IF Len(s) > 0 /\ s[Len(s)] = CR THEN TakeN(s, Len(s) - 1) ELSE s

find_space_last(line) ==
  IF \E i \in 1..Len(line) : line[i] = SP
  THEN Some((CHOOSE i \in 1..Len(line) :
               line[i] = SP /\ \A j \in (i + 1)..Len(line) : line[j] # SP) - 1)
  ELSE None

\* str::find(' '): the offset of the first space.
find_space(line) ==
  IF \E i \in 1..Len(line) : line[i] = SP
  THEN Some((CHOOSE i \in 1..Len(line) :
               line[i] = SP /\ \A j \in 1..(i - 1) : line[j] # SP) - 1)
  ELSE None

-----------------------------------------------------------------------------
\* The value types.

\* Params::new / Params::default
NewParams == {}

HmInsertKeepsFirst(hm, k, v) ==
  IF \E p \in hm : p[1] = k THEN hm ELSE hm \cup {<<k, v>>}

\* HashMap::insert
HmInsert(hm, k, v) == {p \in hm : p[1] # k} \cup {<<k, v>>}

add_param_inserts_first(hm, k, v) ==
  [hm |-> HmInsert(hm, k, v), err |-> validate_param_key(k)]

\* Params::add_param: the new map and "" for Ok(()), or the error message.
add_param(hm, k, v) ==
  LET e == validate_param_key(k)
  IN  IF e # "" THEN [hm |-> hm, err |-> e]
      ELSE [hm |-> HmInsert(hm, k, v), err |-> ""]

\* Telegram::new / Telegram::default
NewTelegram == [topic |-> None, params |-> NewParams]

set_topic_drops(tg, topic) ==
  LET e == validate_topic(topic)
  IN  IF e # "" THEN [tg |-> [tg EXCEPT !.topic = None], err |-> e]
      ELSE [tg |-> [tg EXCEPT !.topic = Some(topic)], err |-> ""]

\* Telegram::set_topic
set_topic(tg, topic) ==
  LET e == validate_topic(topic)
  IN  IF e # "" THEN [tg |-> tg, err |-> e]
      ELSE [tg |-> [tg EXCEPT !.topic = Some(topic)], err |-> ""]

\* Telegram::add_param
tg_add_param(tg, k, v) ==
  LET a == add_param(tg.params, k, v)
  IN  [tg |-> [tg EXCEPT !.params = a.hm], err |-> a.err]

\* Telegram::new_topic: the telegram and "", or the error message.
new_topic(topic) ==
  LET e == validate_topic(topic)
  IN  [tg |-> [topic |-> Some(topic), params |-> NewParams], err |-> e]

\* impl From<String> for Telegram
from_string(topic) == [topic |-> Some(topic), params |-> NewParams]

\* impl From<Params> for Telegram
from_params(params) == [topic |-> None, params |-> params]

\* KVLines::new and KVLines::append
NewKVLines == <<>>
kv_append_replaces(lines, k, v) ==
  Append(SelectSeq(lines, LAMBDA p : p[1] # k), <<k, v>>)
kv_append(lines, k, v) == Append(lines, <<k, v>>)

\* The orders in which a HashMap may be iterated.
RECURSIVE Orders(_)
Orders(hm) ==
  IF hm = {} THEN {<<>>}
  ELSE UNION {{<<p>> \o o : o \in Orders(hm \ {p})} : p \in hm}

RECURSIVE put_lines_value_first(_)
put_lines_value_first(entries) ==
  IF entries = <<>> THEN <<>>
  ELSE entries[1][2] \o <<SP>> \o entries[1][1] \o <<LF>>
         \o put_lines_value_first(Tail(entries))

\* The "key value\n" lines written for the entries in the order given.
RECURSIVE put_lines(_)
put_lines(entries) ==
  IF entries = <<>> THEN <<>>
  ELSE entries[1][1] \o <<SP>> \o entries[1][2] \o <<LF>>
         \o put_lines(Tail(entries))

\* Params::calc_buf_size
RECURSIVE params_calc_buf_size(_)
params_calc_buf_size(hm) ==
  IF hm = {} THEN 1
  ELSE LET p == CHOOSE q \in hm : TRUE
       IN  Len(p[1]) + 1 + Len(p[2]) + 1 + params_calc_buf_size(hm \ {p})

\* Telegram::calc_buf_size
tg_calc_buf_size_no_newline(tg) ==
  (IF IsSome(tg.topic) THEN Len(Unwrap(tg.topic)) ELSE 0)
    + params_calc_buf_size(tg.params)

tg_calc_buf_size(tg) ==
  (IF IsSome(tg.topic) THEN Len(Unwrap(tg.topic)) + 1 ELSE 0)
    + params_calc_buf_size(tg.params)

\* KVLines::calc_buf_size
RECURSIVE kv_calc_buf_size(_)
kv_calc_buf_size(lines) ==
  IF lines = <<>> THEN 1
  ELSE Len(lines[1][1]) + 1 + Len(lines[1][2]) + 1
         + kv_calc_buf_size(Tail(lines))

\* Params::encoder_write: the buffers it may produce, one for each iteration
\* order of the map.
params_encoder_write(hm) == {put_lines(o) \o <<LF>> : o \in Orders(hm)}

\* KVLines::encoder_write
kv_encoder_write(lines) == put_lines(lines) \o <<LF>>

\* Telegram::encoder_write: "" and the buffers it may produce, one for each
\* iteration order of the parameters, or the SerializeError message.
tg_encoder_write(tg) ==
  IF ~IsSome(tg.topic)
  THEN [err |-> "Missing Telegram topic", out |-> {}]
  ELSE [err |-> "",
        out |-> {Unwrap(tg.topic) \o <<LF>> \o put_lines(o) \o <<LF>> :
                   o \in Orders(tg.params)}]

-----------------------------------------------------------------------------
\* What a call returns.  kind is one of
\*   "Ok"                     a configuration call succeeded
\*   "None"                   decode needs more data
\*   "Telegram" "Params" "KVLines" "Chunk" "Bytes" "BytesMut" "File"
\*   "WriteDone" "SkipDone"   the variants of Input
\*   "Err"                    an Error, its variant in err and its text in msg
\*   "Panic"                  the call panicked

Ret(kind) ==
  [kind |-> kind, tg |-> NewTelegram, params |-> NewParams,
   kvlines |-> NewKVLines, bytes |-> <<>>, remain |-> 0, path |-> <<>>,
   err |-> "", msg |-> ""]

Err(err, msg) == [Ret("Err") EXCEPT !.err = err, !.msg = msg]

\* Codec::new_with_max_length (Codec::new: max_line_length = usize::MAX)
NewCodec(max_line_length) ==
  [next_line_index |-> 0,
   max_line_length |-> max_line_length,
   tg |-> NewTelegram,
   params |-> NewParams,
   kvlines |-> NewKVLines,
   state |-> "Telegram",
   bin_remain |-> 0,
   pathname |-> None,
   writer |-> None,
   buf |-> <<>>]

LineStates == {"Telegram", "Params", "KVLines"}
BinStates == {"Chunks", "Bytes", "BytesMut", "File", "Writer", "Skip"}

-----------------------------------------------------------------------------
\* The line scanner.

find_newline_reads_less(self, b) ==
  LET read_to == Min(self.max_line_length, Len(b))
      from == self.next_line_index
      hits == {i \in (from + 1)..read_to : b[i] = LF}
  IN  [read_to |-> read_to,
       panic |-> from > read_to,
       newline_offset |->
         IF from <= read_to /\ hits # {}
         THEN Some((CHOOSE i \in hits : \A j \in hits : i <= j) - 1 - from)
         ELSE None]

find_newline_reads_further(self, b) ==
  LET read_to == Min(SatAdd1(SatAdd1(self.max_line_length)), Len(b))
      from == self.next_line_index
      hits == {i \in (from + 1)..read_to : b[i] = LF}
  IN  [read_to |-> read_to,
       panic |-> from > read_to,
       newline_offset |->
         IF from <= read_to /\ hits # {}
         THEN Some((CHOOSE i \in hits : \A j \in hits : i <= j) - 1 - from)
         ELSE None]

\* Codec::find_newline.  Slicing buf[next_line_index..read_to] panics when
\* next_line_index > read_to.
find_newline(self, b) ==
  LET read_to == Min(SatAdd1(self.max_line_length), Len(b))
      from == self.next_line_index
      hits == {i \in (from + 1)..read_to : b[i] = LF}
  IN  [read_to |-> read_to,
       panic |-> from > read_to,
       newline_offset |->
         IF from <= read_to /\ hits # {}
         THEN Some((CHOOSE i \in hits : \A j \in hits : i <= j) - 1 - from)
         ELSE None]

get_eol_idx_moves_cursor(self, b) ==
  LET f == find_newline(self, b)
  IN  IF f.panic THEN [self |-> self, res |-> "Panic", idx |-> 0]
      ELSE IF IsSome(f.newline_offset)
        THEN [self |-> [self EXCEPT !.next_line_index = 0],
              res |-> "Some",
              idx |-> Unwrap(f.newline_offset) + self.next_line_index + 1]
      ELSE IF Len(b) > self.max_line_length
        THEN [self |-> [self EXCEPT !.next_line_index = f.read_to],
              res |-> "Err", idx |-> 0]
      ELSE [self |-> [self EXCEPT !.next_line_index = f.read_to],
            res |-> "None", idx |-> 0]

\* Codec::get_eol_idx: res is "Some" (with idx), "None", "Err" or "Panic".
get_eol_idx(self, b) ==
  LET f == find_newline(self, b)
  IN  IF f.panic THEN [self |-> self, res |-> "Panic", idx |-> 0]
      ELSE IF IsSome(f.newline_offset)
        THEN [self |-> [self EXCEPT !.next_line_index = 0],
              res |-> "Some",
              idx |-> Unwrap(f.newline_offset) + self.next_line_index + 1]
      ELSE IF Len(b) > self.max_line_length
        THEN [self |-> self, res |-> "Err", idx |-> 0]
      ELSE [self |-> [self EXCEPT !.next_line_index = f.read_to],
            res |-> "None", idx |-> 0]

TooLong == Err("BadFormat", "Exceeded maximum line length.")
BadUtf8 == Err("IO", "Unable to decode input as UTF8")

\* The line a decoder takes from the buffer once get_eol_idx returned idx:
\* buf.split_to(idx), without its last byte and without a trailing CR.
TakeLine(b, idx) == without_carriage_return(TakeN(TakeN(b, idx), idx - 1))

\* What buf.split_to(idx) leaves in the buffer.
AfterLine(b, idx) == DropN(b, idx)

\* line.split_at(idx) and v[1..]
KeyOf(line, idx) == TakeN(line, idx)
ValueOfKeepsSpace(line, idx) == DropN(line, idx)
ValueOf(line, idx) == DropN(line, idx + 1)

decode_telegram_line_resets(self, line) ==
  IF ~IsSome(self.tg.topic)
  THEN LET s == set_topic(self.tg, line)
       IN  [self |-> [self EXCEPT !.tg = s.tg], err |-> s.err]
  ELSE LET idx == find_space(line)
       IN  IF IsSome(idx)
           THEN LET a == tg_add_param(self.tg, KeyOf(line, Unwrap(idx)),
                                      ValueOf(line, Unwrap(idx)))
                IN  [self |-> [self EXCEPT !.tg = IF a.err # "" THEN NewTelegram
                                                 ELSE a.tg],
                     err |-> a.err]
           ELSE [self |-> self, err |-> ""]

decode_telegram_line_rejects(self, line) ==
  IF ~IsSome(self.tg.topic)
  THEN LET s == set_topic(self.tg, line)
       IN  [self |-> [self EXCEPT !.tg = s.tg], err |-> s.err]
  ELSE LET idx == find_space(line)
       IN  IF IsSome(idx)
           THEN LET a == tg_add_param(self.tg, KeyOf(line, Unwrap(idx)),
                                      ValueOf(line, Unwrap(idx)))
                IN  [self |-> [self EXCEPT !.tg = a.tg], err |-> a.err]
           ELSE [self |-> self, err |-> "Missing value"]

\* Codec::decode_telegram_line
decode_telegram_line(self, line) ==
  IF ~IsSome(self.tg.topic)
  THEN LET s == set_topic(self.tg, line)
       IN  [self |-> [self EXCEPT !.tg = s.tg], err |-> s.err]
  ELSE LET idx == find_space(line)
       IN  IF IsSome(idx)
           THEN LET a == tg_add_param(self.tg, KeyOf(line, Unwrap(idx)),
                                      ValueOf(line, Unwrap(idx)))
                IN  [self |-> [self EXCEPT !.tg = a.tg], err |-> a.err]
           ELSE [self |-> self, err |-> ""]

RECURSIVE decode_telegram_lines_keeps_tg(_, _)
decode_telegram_lines_keeps_tg(self, b) ==
  LET e == get_eol_idx(self, b)
  IN  CASE e.res = "Panic" -> [self |-> self, buf |-> b, ret |-> Ret("Panic")]
        [] e.res = "Err" -> [self |-> e.self, buf |-> b, ret |-> TooLong]
        [] e.res = "None" -> [self |-> e.self, buf |-> b, ret |-> Ret("None")]
        [] OTHER ->
           LET line == TakeLine(b, e.idx)
               rest == AfterLine(b, e.idx)
           IN  IF ~utf8(line)
               THEN [self |-> e.self, buf |-> rest, ret |-> BadUtf8]
               ELSE IF Len(line) = 0
               THEN [self |-> e.self,
                     buf |-> rest,
                     ret |-> [Ret("Telegram") EXCEPT !.tg = e.self.tg]]
               ELSE LET d == decode_telegram_line(e.self, line)
                    IN  IF d.err # ""
                        THEN [self |-> d.self, buf |-> rest,
                              ret |-> Err("BadFormat", d.err)]
                        ELSE decode_telegram_lines_keeps_tg(d.self, rest)

\* Codec::decode_telegram_lines
RECURSIVE decode_telegram_lines(_, _)
decode_telegram_lines(self, b) ==
  LET e == get_eol_idx(self, b)
  IN  CASE e.res = "Panic" -> [self |-> self, buf |-> b, ret |-> Ret("Panic")]
        [] e.res = "Err" -> [self |-> e.self, buf |-> b, ret |-> TooLong]
        [] e.res = "None" -> [self |-> e.self, buf |-> b, ret |-> Ret("None")]
        [] OTHER ->
           LET line == TakeLine(b, e.idx)
               rest == AfterLine(b, e.idx)
           IN  IF ~utf8(line)
               THEN [self |-> e.self, buf |-> rest, ret |-> BadUtf8]
               ELSE IF Len(line) = 0
               THEN [self |-> [e.self EXCEPT !.tg = NewTelegram],
                     buf |-> rest,
                     ret |-> [Ret("Telegram") EXCEPT !.tg = e.self.tg]]
               ELSE LET d == decode_telegram_line(e.self, line)
                    IN  IF d.err # ""
                        THEN [self |-> d.self, buf |-> rest,
                              ret |-> Err("BadFormat", d.err)]
                        ELSE decode_telegram_lines(d.self, rest)

\* Codec::decode_params_lines
RECURSIVE decode_params_lines(_, _)
decode_params_lines(self, b) ==
  LET e == get_eol_idx(self, b)
  IN  CASE e.res = "Panic" -> [self |-> self, buf |-> b, ret |-> Ret("Panic")]
        [] e.res = "Err" -> [self |-> e.self, buf |-> b, ret |-> TooLong]
        [] e.res = "None" -> [self |-> e.self, buf |-> b, ret |-> Ret("None")]
        [] OTHER ->
           LET line == TakeLine(b, e.idx)
               rest == AfterLine(b, e.idx)
               idx == find_space(line)
           IN  IF ~utf8(line)
               THEN [self |-> e.self, buf |-> rest, ret |-> BadUtf8]
               ELSE IF Len(line) = 0
               THEN [self |-> [e.self EXCEPT !.state = "Telegram",
                                             !.params = NewParams],
                     buf |-> rest,
                     ret |-> [Ret("Params") EXCEPT !.params = e.self.params]]
               ELSE IF IsSome(idx)
               THEN LET a == add_param(e.self.params,
                                       KeyOf(line, Unwrap(idx)),
                                       ValueOf(line, Unwrap(idx)))
                    IN  IF a.err # ""
                        THEN [self |-> e.self, buf |-> rest,
                              ret |-> Err("BadFormat", a.err)]
                        ELSE decode_params_lines(
                               [e.self EXCEPT !.params = a.hm], rest)
               ELSE decode_params_lines(e.self, rest)

\* Codec::decode_kvlines
RECURSIVE decode_kvlines(_, _)
decode_kvlines(self, b) ==
  LET e == get_eol_idx(self, b)
  IN  CASE e.res = "Panic" -> [self |-> self, buf |-> b, ret |-> Ret("Panic")]
        [] e.res = "Err" -> [self |-> e.self, buf |-> b, ret |-> TooLong]
        [] e.res = "None" -> [self |-> e.self, buf |-> b, ret |-> Ret("None")]
        [] OTHER ->
           LET line == TakeLine(b, e.idx)
               rest == AfterLine(b, e.idx)
               idx == find_space(line)
           IN  IF ~utf8(line)
               THEN [self |-> e.self, buf |-> rest, ret |-> BadUtf8]
               ELSE IF Len(line) = 0
               THEN [self |-> [e.self EXCEPT !.state = "Telegram",
                                             !.kvlines = NewKVLines],
                     buf |-> rest,
                     ret |-> [Ret("KVLines") EXCEPT !.kvlines = e.self.kvlines]]
               ELSE IF IsSome(idx)
               THEN decode_kvlines(
                      [e.self EXCEPT !.kvlines =
                         kv_append(@, KeyOf(line, Unwrap(idx)),
                                   ValueOf(line, Unwrap(idx)))], rest)
               ELSE decode_kvlines(e.self, rest)

-----------------------------------------------------------------------------
\* The binary transfer modes of Decoder::decode.

InvalidSize == Err("InvalidSize", "The size must not be zero")
WriteFailed == Err("IO", "write failed")

\* What Write::write_all can do with n bytes: write them all, or fail after
\* having written k < n of them (nothing fails for n = 0: write_all makes no
\* write call then).
WriteOutcomes(n) ==
  {[ok |-> TRUE, n |-> 0]} \cup {[ok |-> FALSE, n |-> k] : k \in 0..(n - 1)}

decode_chunks_reports_before(self, b) ==
  IF Len(b) = 0 THEN [self |-> self, buf |-> b, ret |-> Ret("None")]
  ELSE LET read_to == Min(self.bin_remain, Len(b))
           remain == self.bin_remain - read_to
       IN  [self |-> [self EXCEPT
                        !.bin_remain = remain,
                        !.state = IF remain = 0 THEN "Telegram" ELSE @],
            buf |-> DropN(b, read_to),
            ret |-> [Ret("Chunk") EXCEPT !.bytes = TakeN(b, read_to),
                                         !.remain = self.bin_remain]]

\* CodecState::Chunks
decode_chunks(self, b) ==
  IF Len(b) = 0 THEN [self |-> self, buf |-> b, ret |-> Ret("None")]
  ELSE LET read_to == Min(self.bin_remain, Len(b))
           remain == self.bin_remain - read_to
       IN  [self |-> [self EXCEPT
                        !.bin_remain = remain,
                        !.state = IF remain = 0 THEN "Telegram" ELSE @],
            buf |-> DropN(b, read_to),
            ret |-> [Ret("Chunk") EXCEPT !.bytes = TakeN(b, read_to),
                                         !.remain = remain]]

decode_bytes_stays(self, b, kind) ==
  IF Len(b) = 0 THEN [self |-> self, buf |-> b, ret |-> Ret("None")]
  ELSE LET read_to == Min(self.bin_remain, Len(b))
           remain == self.bin_remain - read_to
           filled == self.buf \o TakeN(b, read_to)
       IN  IF remain # 0
           THEN [self |-> [self EXCEPT !.buf = filled, !.bin_remain = remain],
                 buf |-> DropN(b, read_to),
                 ret |-> Ret("None")]
           ELSE [self |-> [self EXCEPT !.buf = <<>>, !.bin_remain = remain],
                 buf |-> DropN(b, read_to),
                 ret |-> [Ret(kind) EXCEPT !.bytes = filled]]

decode_bytes_last_chunk(self, b, kind) ==
  IF Len(b) = 0 THEN [self |-> self, buf |-> b, ret |-> Ret("None")]
  ELSE LET read_to == Min(self.bin_remain, Len(b))
           remain == self.bin_remain - read_to
           filled == self.buf \o TakeN(b, read_to)
       IN  IF remain # 0
           THEN [self |-> [self EXCEPT !.buf = filled, !.bin_remain = remain],
                 buf |-> DropN(b, read_to),
                 ret |-> Ret("None")]
           ELSE [self |-> [self EXCEPT !.buf = <<>>, !.bin_remain = remain,
                                       !.state = "Telegram"],
                 buf |-> DropN(b, read_to),
                 ret |-> [Ret(kind) EXCEPT !.bytes = TakeN(b, read_to)]]

\* CodecState::Bytes (kind = "Bytes") and CodecState::BytesMut
decode_bytes(self, b, kind) ==
  IF Len(b) = 0 THEN [self |-> self, buf |-> b, ret |-> Ret("None")]
  ELSE LET read_to == Min(self.bin_remain, Len(b))
           remain == self.bin_remain - read_to
           filled == self.buf \o TakeN(b, read_to)
       IN  IF remain # 0
           THEN [self |-> [self EXCEPT !.buf = filled, !.bin_remain = remain],
                 buf |-> DropN(b, read_to),
                 ret |-> Ret("None")]
           ELSE [self |-> [self EXCEPT !.buf = <<>>, !.bin_remain = remain,
                                       !.state = "Telegram"],
                 buf |-> DropN(b, read_to),
                 ret |-> [Ret(kind) EXCEPT !.bytes = filled]]

sink_done_keeps_writer(self) ==
  IF self.state = "File"
  THEN IF IsSome(self.pathname)
       THEN [self |-> [self EXCEPT !.bin_remain = 0, !.pathname = None,
                                   !.state = "Telegram"],
             ret |-> [Ret("File") EXCEPT !.path = Unwrap(self.pathname)]]
       ELSE [self |-> [self EXCEPT !.bin_remain = 0],
             ret |-> Err("BadState", "Missing pathname")]
  ELSE [self |-> [self EXCEPT !.bin_remain = 0, !.state = "Telegram"],
        ret |-> Ret("WriteDone")]

\* CodecState::File | CodecState::Writer once bin_remain has reached 0: the
\* writer is dropped and the completion value returned.
sink_done(self) ==
  IF self.state = "File"
  THEN IF IsSome(self.pathname)
       THEN [self |-> [self EXCEPT !.bin_remain = 0, !.writer = None,
                                   !.pathname = None, !.state = "Telegram"],
             ret |-> [Ret("File") EXCEPT !.path = Unwrap(self.pathname)]]
       ELSE [self |-> [self EXCEPT !.bin_remain = 0, !.writer = None],
             ret |-> Err("BadState", "Missing pathname")]
  ELSE [self |-> [self EXCEPT !.bin_remain = 0, !.writer = None,
                              !.state = "Telegram"],
        ret |-> Ret("WriteDone")]

\* Write::write_all(data) on the sink, ending as w says.
write_all(snk, data, w) ==
  IF w.ok THEN snk \o data ELSE snk \o TakeN(data, w.n)

\* CodecState::File | CodecState::Writer, the write ending as w says.
decode_sink(self, b, snk, w) ==
  IF Len(b) = 0
  THEN [self |-> self, buf |-> b, sink |-> snk, ret |-> Ret("None")]
  ELSE LET read_to == Min(self.bin_remain, Len(b))
           remain == self.bin_remain - read_to
           rest == IF IsSome(self.writer) THEN DropN(b, read_to) ELSE b
           written == IF IsSome(self.writer)
                      THEN write_all(snk, TakeN(b, read_to), w)
                      ELSE snk
       IN  IF IsSome(self.writer) /\ ~w.ok
           THEN [self |-> self, buf |-> rest, sink |-> written,
                 ret |-> WriteFailed]
           ELSE IF remain # 0
           THEN [self |-> [self EXCEPT !.bin_remain = remain],
                 buf |-> rest, sink |-> written, ret |-> Ret("None")]
           ELSE LET done == sink_done(self)
                IN  [self |-> done.self, buf |-> rest, sink |-> written,
                     ret |-> done.ret]

decode_skip_stays(self, b) ==
  IF Len(b) = 0 THEN [self |-> self, buf |-> b, ret |-> Ret("None")]
  ELSE LET read_to == Min(self.bin_remain, Len(b))
           remain == self.bin_remain - read_to
       IN  [self |-> [self EXCEPT !.bin_remain = remain],
            buf |-> DropN(b, read_to), ret |-> Ret("None")]

decode_skip_drains(self, b) ==
  IF Len(b) = 0 THEN [self |-> self, buf |-> b, ret |-> Ret("None")]
  ELSE LET read_to == Min(self.bin_remain, Len(b))
           remain == self.bin_remain - read_to
       IN  IF remain # 0
           THEN [self |-> [self EXCEPT !.bin_remain = remain],
                 buf |-> <<>>, ret |-> Ret("None")]
           ELSE [self |-> [self EXCEPT !.bin_remain = remain,
                                       !.state = "Telegram"],
                 buf |-> <<>>, ret |-> Ret("SkipDone")]

\* CodecState::Skip
decode_skip(self, b) ==
  IF Len(b) = 0 THEN [self |-> self, buf |-> b, ret |-> Ret("None")]
  ELSE LET read_to == Min(self.bin_remain, Len(b))
           remain == self.bin_remain - read_to
       IN  IF remain # 0
           THEN [self |-> [self EXCEPT !.bin_remain = remain],
                 buf |-> DropN(b, read_to), ret |-> Ret("None")]
           ELSE [self |-> [self EXCEPT !.bin_remain = remain,
                                       !.state = "Telegram"],
                 buf |-> DropN(b, read_to), ret |-> Ret("SkipDone")]

\* The write outcomes a decode call can meet: those of write_all on the bytes
\* it hands to the writer, when it hands any.
DecodeWrites(self, b) ==
  IF self.state \in {"File", "Writer"} /\ IsSome(self.writer) /\ Len(b) > 0
  THEN WriteOutcomes(Min(self.bin_remain, Len(b)))
  ELSE WriteOutcomes(0)

WithSink(d, snk) ==
  [self |-> d.self, buf |-> d.buf, sink |-> snk, ret |-> d.ret]

\* Decoder::decode: the codec, the input buffer, the sink and the result
\* after the call.
decode(self, b, snk, w) ==
  CASE self.state = "Telegram" -> WithSink(decode_telegram_lines(self, b), snk)
    [] self.state = "Params" -> WithSink(decode_params_lines(self, b), snk)
    [] self.state = "KVLines" -> WithSink(decode_kvlines(self, b), snk)
    [] self.state = "Chunks" -> WithSink(decode_chunks(self, b), snk)
    [] self.state = "Bytes" -> WithSink(decode_bytes(self, b, "Bytes"), snk)
    [] self.state = "BytesMut" ->
         WithSink(decode_bytes(self, b, "BytesMut"), snk)
    [] self.state \in {"File", "Writer"} -> decode_sink(self, b, snk, w)
    [] OTHER -> WithSink(decode_skip(self, b), snk)

-----------------------------------------------------------------------------
\* The configuration calls: the codec, the sink and the result after the call.

\* Codec::expect_chunks
expect_chunks(self, snk, size) ==
  [self |-> [self EXCEPT !.state = "Chunks", !.bin_remain = size],
   sink |-> snk, ret |-> Ret("Ok")]

expect_buffer_keeps_buf(self, snk, size, state) ==
  IF size = 0 THEN [self |-> self, sink |-> snk, ret |-> InvalidSize]
  ELSE [self |-> [self EXCEPT !.state = state, !.bin_remain = size],
        sink |-> snk, ret |-> Ret("Ok")]

\* Codec::expect_bytes (state = "Bytes") and Codec::expect_bytesmut
expect_buffer(self, snk, size, state) ==
  IF size = 0 THEN [self |-> self, sink |-> snk, ret |-> InvalidSize]
  ELSE [self |-> [self EXCEPT !.state = state, !.bin_remain = size,
                              !.buf = <<>>],
        sink |-> snk, ret |-> Ret("Ok")]

expect_bytes_sets_mode(self, snk, size) ==
  IF size = 0
  THEN [self |-> [self EXCEPT !.state = "Bytes"], sink |-> snk,
        ret |-> InvalidSize]
  ELSE expect_buffer(self, snk, size, "Bytes")
expect_bytes(self, snk, size) == expect_buffer(self, snk, size, "Bytes")
expect_bytesmut(self, snk, size) == expect_buffer(self, snk, size, "BytesMut")

expect_file_swallows(self, snk, pathname, size, created) ==
  IF size = 0 THEN [self |-> self, sink |-> snk, ret |-> InvalidSize]
  ELSE [self |-> [self EXCEPT !.state = "File",
                              !.writer = IF created THEN Some("File") ELSE None,
                              !.pathname = Some(pathname),
                              !.bin_remain = size],
        sink |-> IF created THEN <<>> ELSE snk, ret |-> Ret("Ok")]

\* Codec::expect_file; created says whether File::create succeeds.
expect_file(self, snk, pathname, size, created) ==
  IF size = 0 THEN [self |-> self, sink |-> snk, ret |-> InvalidSize]
  ELSE IF ~created
  THEN [self |-> [self EXCEPT !.state = "File"], sink |-> snk,
        ret |-> Err("IO", "create failed")]
  ELSE [self |-> [self EXCEPT !.state = "File", !.writer = Some("File"),
                              !.pathname = Some(pathname),
                              !.bin_remain = size],
        sink |-> <<>>, ret |-> Ret("Ok")]

\* Codec::expect_writer
expect_writer(self, snk, size) ==
  IF size = 0 THEN [self |-> self, sink |-> snk, ret |-> InvalidSize]
  ELSE [self |-> [self EXCEPT !.state = "Writer", !.writer = Some("Writer"),
                              !.bin_remain = size],
        sink |-> <<>>, ret |-> Ret("Ok")]

\* Codec::expect_params
expect_params(self, snk) ==
  [self |-> [self EXCEPT !.state = "Params"], sink |-> snk, ret |-> Ret("Ok")]

\* Codec::expect_kvlines
expect_kvlines(self, snk) ==
  [self |-> [self EXCEPT !.state = "KVLines"], sink |-> snk, ret |-> Ret("Ok")]

\* Codec::skip
skip(self, snk, size) ==
  IF size = 0 THEN [self |-> self, sink |-> snk, ret |-> InvalidSize]
  ELSE [self |-> [self EXCEPT !.state = "Skip", !.bin_remain = size],
        sink |-> snk, ret |-> Ret("Ok")]

-----------------------------------------------------------------------------
\* The history kept for the properties: the codec and the input buffer as
\* they were at the mark (in grows with every byte appended since, as if no
\* decode call had been made), the chunks returned since, and whether a
\* decode call has failed, or has asked for more data, since.  cfg is "Ok" or "Err" after a configuration
\* call, as the call ended, and "none" after a completed value.

NewMark(self, b, cfg) ==
  [c |-> self, in |-> b, out |-> <<>>, failed |-> FALSE, polled |-> FALSE,
   cfg |-> cfg]

\* The Input variants that complete a frame or a transfer.
IsCompletion(r) ==
  \/ r.kind \in {"Telegram", "Params", "KVLines", "Bytes", "BytesMut",
                 "File", "WriteDone", "SkipDone"}
  \/ r.kind = "Chunk" /\ r.remain = 0

MarkAfterDecode(m, d) ==
  IF IsCompletion(d.ret) THEN NewMark(d.self, d.buf, "none")
  ELSE IF d.ret.kind = "Chunk" THEN [m EXCEPT !.out = @ \o d.ret.bytes]
  ELSE IF d.ret.kind = "Err" THEN [m EXCEPT !.failed = TRUE]
  ELSE IF d.ret.kind = "None" THEN [m EXCEPT !.polled = TRUE]
  ELSE m

Running == ret.kind # "Panic"

-----------------------------------------------------------------------------
\* The state machine.

\* A codec as it is after construction, and nothing received yet.
Fresh(c) ==
  /\ codec = c
  /\ inbuf = <<>>
  /\ sink = <<>>
  /\ ret = Ret("Ok")
  /\ call = [op |-> "new", size |-> 0, resumed |-> FALSE]
  /\ sent = 0
  /\ ncfg = 0
  /\ mark = NewMark(codec, inbuf, "none")

\* Nothing is on the wire: the host appends whatever bytes it likes.
NoWire ==
  /\ wire = <<>>
  /\ scn = [tg |-> NewTelegram, payload |-> <<>>]

\* Codec::new()
Init == Fresh(NewCodec(UsizeMax)) /\ NoWire

\* Codec::new() or Codec::new_with_max_length(MaxLine)
InitLines ==
  /\ \E c \in {NewCodec(UsizeMax), NewCodec(MaxLine)} : Fresh(c)
  /\ NoWire

\* The host reads a byte from the transport into the input buffer.
ReceiveFrom(bytes, limit) ==
  /\ Running
  /\ sent < limit
  /\ \E byte \in bytes :
       /\ inbuf' = Append(inbuf, byte)
       /\ mark' = [mark EXCEPT !.in = Append(@, byte)]
  /\ sent' = sent + 1
  /\ UNCHANGED <<codec, sink, ret, call, ncfg, wire, scn>>

Receive == ReceiveFrom(Alphabet, MaxStream)

ReceiveLine == ReceiveFrom(LineAlphabet, MaxFrame)

\* The host calls decode on the input buffer.
Decode ==
  /\ Running
  /\ \E w \in DecodeWrites(codec, inbuf) :
       LET d == decode(codec, inbuf, sink, w)
       IN  /\ codec' = d.self
           /\ inbuf' = d.buf
           /\ sink' = d.sink
           /\ ret' = d.ret
           /\ mark' = MarkAfterDecode(mark, d)
  /\ call' = [op |-> "decode", size |-> 0, resumed |-> mark.polled]
  /\ UNCHANGED <<sent, ncfg, wire, scn>>

\* A configuration call that ended as c says.
Configured(op, size, c) ==
  /\ ncfg < MaxCalls
  /\ ncfg' = ncfg + 1
  /\ codec' = c.self
  /\ sink' = c.sink
  /\ ret' = c.ret
  /\ call' = [op |-> op, size |-> size, resumed |-> FALSE]
  /\ mark' = IF c.ret.kind = "Err" /\ c.self = codec
             THEN mark
             ELSE NewMark(c.self, inbuf, c.ret.kind)
  /\ UNCHANGED <<inbuf, sent, wire, scn>>

ExpectChunks ==
  /\ Running
  /\ \E size \in 0..MaxSize :
       Configured("expect_chunks", size, expect_chunks(codec, sink, size))

ExpectBytes ==
  /\ Running
  /\ \E size \in 0..MaxSize :
       Configured("expect_bytes", size, expect_bytes(codec, sink, size))

ExpectBytesMut ==
  /\ Running
  /\ \E size \in 0..MaxSize :
       Configured("expect_bytesmut", size, expect_bytesmut(codec, sink, size))

ExpectFile ==
  /\ Running
  /\ \E size \in 0..MaxSize, pathname \in Paths, created \in BOOLEAN :
       Configured("expect_file", size,
                  expect_file(codec, sink, pathname, size, created))

ExpectWriter ==
  /\ Running
  /\ \E size \in 0..MaxSize :
       Configured("expect_writer", size, expect_writer(codec, sink, size))

ExpectParams ==
  /\ Running
  /\ Configured("expect_params", 0, expect_params(codec, sink))

ExpectKVLines ==
  /\ Running
  /\ Configured("expect_kvlines", 0, expect_kvlines(codec, sink))

Skip ==
  /\ Running
  /\ \E size \in 0..MaxSize :
       Configured("skip", size, skip(codec, sink, size))

Next ==
  \/ Receive
  \/ Decode
  \/ ExpectChunks
  \/ ExpectBytes
  \/ ExpectBytesMut
  \/ ExpectFile
  \/ ExpectWriter
  \/ ExpectParams
  \/ ExpectKVLines
  \/ Skip

Spec == Init /\ [][Next]_vars

\* One telegram followed by its payload on the wire (tests/tg_to_expect.rs):
\* the sender builds the telegram through the API and encodes it, the wire
\* delivers the bytes in order, and the application asks for the payload as
\* soon as it is handed the telegram.
WireTopics == {<<97>>, <<104, 105>>}

WireEntries == {<<<<108>>, <<52>>>>, <<<<107>>, <<SP, 118>>>>, <<<<107>>, <<>>>>}

RECURSIVE Build(_, _)
Build(tg, entries) ==
  IF entries = <<>> THEN tg
  ELSE Build(tg_add_param(tg, entries[1][1], entries[1][2]).tg, Tail(entries))

WireTelegrams ==
  {Build(set_topic(NewTelegram, topic).tg, o) :
     topic \in WireTopics, o \in UNION {Orders(es) : es \in SUBSET WireEntries}}

WirePayloads == UNION {[1..n -> Alphabet] : n \in 1..MaxSize}

InitWire ==
  /\ Fresh(NewCodec(UsizeMax))
  /\ \E tg \in WireTelegrams, payload \in WirePayloads :
       /\ scn = [tg |-> tg, payload |-> payload]
       /\ \E frame \in tg_encoder_write(tg).out : wire = frame \o payload

\* The next byte on the wire reaches the input buffer.
Deliver ==
  /\ Running
  /\ wire # <<>>
  /\ wire' = Tail(wire)
  /\ inbuf' = Append(inbuf, Head(wire))
  /\ mark' = [mark EXCEPT !.in = Append(@, Head(wire))]
  /\ sent' = sent + 1
  /\ UNCHANGED <<codec, sink, ret, call, ncfg, scn>>

\* The host polls the decoder until it hands back a value.
Poll ==
  /\ ret.kind \notin {"Telegram", "BytesMut"}
  /\ Decode

\* The application, handed the telegram, asks for the payload that follows.
ExpectPayload ==
  /\ Running
  /\ ret.kind = "Telegram"
  /\ Configured("expect_bytesmut", Len(scn.payload),
                expect_bytesmut(codec, sink, Len(scn.payload)))

NextWire ==
  \/ Deliver
  \/ Poll
  \/ ExpectPayload

SpecWire == InitWire /\ [][NextWire]_vars

\* impl Encoder<&Telegram> for Codec: the error or Ok(()), and the buffers the
\* call may leave, one for each iteration order of the parameters.
encode_writes_newline(tg, buf) ==
  LET e == tg_encoder_write(tg)
  IN  IF e.err # ""
      THEN [ret |-> Err("SerializeError", e.err), out |-> {buf \o <<LF>>}]
      ELSE [ret |-> Ret("Ok"), out |-> {buf \o frame : frame \in e.out}]

encode(tg, buf) ==
  LET e == tg_encoder_write(tg)
  IN  IF e.err # ""
      THEN [ret |-> Err("SerializeError", e.err), out |-> {buf}]
      ELSE [ret |-> Ret("Ok"), out |-> {buf \o frame : frame \in e.out}]

\* The telegrams a sender may build: with a topic, or from Telegram::new()
\* and add_param alone.
SentTelegrams ==
  {Build(tg, o) :
     tg \in {NewTelegram, set_topic(NewTelegram, <<97>>).tg},
     o \in {<<>>, <<<<<<108>>, <<52>>>>>>,
            <<<<<<108>>, <<52>>>>, <<<<107>>, <<SP, 118>>>>>>}}

\* The sender encodes a telegram into the buffer that goes on the wire.
Encode ==
  /\ Running
  /\ ncfg < MaxCalls
  /\ ncfg' = ncfg + 1
  /\ \E tg \in SentTelegrams :
       /\ scn' = [tg |-> tg, payload |-> <<>>]
       /\ ret' = encode(tg, wire).ret
       /\ wire' \in encode(tg, wire).out
  /\ call' = [op |-> "encode", size |-> 0, resumed |-> FALSE]
  /\ UNCHANGED <<codec, inbuf, sink, sent, mark>>

NextEncode ==
  \/ Encode
  \/ Deliver
  \/ Decode

SpecEncode == Init /\ [][NextEncode]_vars

\* The value types on their own: the application holds a telegram and hands a
\* topic, or a key and a value, to one of its calls.  The characters stand
\* for a letter, a digit, '_', another punctuation mark and the space.
ApiAlphabet == {97, 49, 95, 33, SP}

Strs == UNION {[1..n -> ApiAlphabet] : n \in 0..MaxStr}

ApiValues == {<<>>, <<SP, 118>>}

ApiTelegrams ==
  {NewTelegram,
   [topic |-> None, params |-> {<<<<97>>, <<118>>>>}],
   [topic |-> Some(<<104, 105>>), params |-> NewParams],
   [topic |-> Some(<<104, 105>>), params |-> {<<<<97>>, <<118>>>>}]}

ApiKVLines == {NewKVLines, <<<<<<97>>, <<118>>>>, <<<<97>>, <<118>>>>>>}

InitApi ==
  /\ Fresh(NewCodec(UsizeMax))
  /\ wire = <<>>
  /\ \E tg \in ApiTelegrams, kv \in ApiKVLines, k \in Strs, v \in ApiValues :
       scn = [tg |-> tg, kv |-> kv, arg |-> <<k, v>>]

\* A call of the telegram in the application's hands that ended as r says.
Called(op, r) ==
  /\ ncfg < MaxCalls
  /\ ncfg' = ncfg + 1
  /\ scn' = [scn EXCEPT !.tg = r.tg]
  /\ ret' = IF r.err = "" THEN Ret("Ok") ELSE Err("BadFormat", r.err)
  /\ call' = [op |-> op, size |-> 0, resumed |-> FALSE]
  /\ UNCHANGED <<codec, inbuf, sink, sent, wire, mark>>

\* let tg = Telegram::new_topic(topic)?
NewTopic ==
  LET r == new_topic(scn.arg[1])
  IN  Called("new_topic", IF r.err = "" THEN r ELSE [r EXCEPT !.tg = scn.tg])

\* tg.set_topic(topic)
SetTopic == Called("set_topic", set_topic(scn.tg, scn.arg[1]))

\* tg.add_param(key, value)
AddParam == Called("add_param", tg_add_param(scn.tg, scn.arg[1], scn.arg[2]))

\* let tg = Telegram::from(topic)
FromString == Called("from_string", [tg |-> from_string(scn.arg[1]), err |-> ""])

\* let tg = Telegram::from(tg.into_params())
FromParams == Called("from_params", [tg |-> from_params(scn.tg.params), err |-> ""])

\* kvlines.append(key, value)
KvAppend ==
  /\ ncfg < MaxCalls
  /\ ncfg' = ncfg + 1
  /\ scn' = [scn EXCEPT !.kv = kv_append(@, scn.arg[1], scn.arg[2])]
  /\ ret' = Ret("Ok")
  /\ call' = [op |-> "append", size |-> 0, resumed |-> FALSE]
  /\ UNCHANGED <<codec, inbuf, sink, sent, wire, mark>>

\* An encode call that reserved size bytes and left one of the buffers out.
Encoded(op, size, r, out) ==
  /\ ncfg < MaxCalls
  /\ ncfg' = ncfg + 1
  /\ wire' \in out
  /\ ret' = r
  /\ call' = [op |-> op, size |-> size, resumed |-> FALSE]
  /\ UNCHANGED <<codec, inbuf, sink, sent, scn, mark>>

\* codec.encode(&tg, &mut buf)
EncodeTelegram ==
  Encoded("encode_telegram",
          IF IsSome(scn.tg.topic) THEN tg_calc_buf_size(scn.tg) ELSE 0,
          encode(scn.tg, wire).ret, encode(scn.tg, wire).out)

\* codec.encode(tg.get_params(), &mut buf)
EncodeParams ==
  Encoded("encode_params", params_calc_buf_size(scn.tg.params), Ret("Ok"),
          {wire \o frame : frame \in params_encoder_write(scn.tg.params)})

\* codec.encode(&kvlines, &mut buf)
EncodeKVLines ==
  Encoded("encode_kvlines", kv_calc_buf_size(scn.kv), Ret("Ok"),
          {wire \o kv_encoder_write(scn.kv)})

NextApi ==
  \/ NewTopic
  \/ SetTopic
  \/ AddParam
  \/ FromString
  \/ FromParams
  \/ KvAppend
  \/ EncodeTelegram
  \/ EncodeParams
  \/ EncodeKVLines

SpecApi == InitApi /\ [][NextApi]_vars

\* A value of one of the three kinds is encoded by the sender, the wire
\* delivers its bytes one at a time, and the receiver, which has asked for the
\* matching kind before the first byte arrives, calls decode whenever it
\* likes.  Values hold a space, a CR and an LF in places where the API puts
\* no restriction on them.
RoundValues == {<<>>, <<52>>, <<SP, 118>>, <<118, CR>>, <<LF>>}

RoundMaps ==
  {{}} \cup {{<<<<108>>, v>>} : v \in RoundValues}
       \cup {{<<<<108>>, <<52>>>>, <<<<107>>, v>>} : v \in RoundValues}

RoundTelegrams ==
  {[topic |-> Some(t), params |-> hm] : t \in {<<97>>, <<104, 105>>},
                                        hm \in RoundMaps}

RoundKeys == {<<>>, <<107>>, <<107, CR>>, <<107, SP>>}

RoundLists ==
  {NewKVLines}
    \cup {kv_append(NewKVLines, k, v) : k \in RoundKeys, v \in RoundValues}
    \cup {kv_append(kv_append(NewKVLines, <<107>>, <<52>>), <<107>>, v) :
            v \in RoundValues}

InitRound ==
  /\ Fresh(NewCodec(UsizeMax))
  /\ \/ \E tg \in RoundTelegrams :
          /\ scn = [kind |-> "Telegram", tg |-> tg, kv |-> NewKVLines]
          /\ wire \in tg_encoder_write(tg).out
     \/ \E tg \in RoundTelegrams :
          /\ scn = [kind |-> "Params", tg |-> tg, kv |-> NewKVLines]
          /\ wire \in params_encoder_write(tg.params)
     \/ \E kv \in RoundLists :
          /\ scn = [kind |-> "KVLines", tg |-> NewTelegram, kv |-> kv]
          /\ wire = kv_encoder_write(kv)

\* The receiver asks for the kind of value that is coming.
AskMatching ==
  /\ sent = 0
  /\ codec.state = "Telegram"
  /\ \/ scn.kind = "Params" /\ ExpectParams
     \/ scn.kind = "KVLines" /\ ExpectKVLines

\* The wire delivers the next byte once the receiver is in the matching mode.
DeliverMatching == codec.state = scn.kind /\ Deliver

NextRound ==
  \/ AskMatching
  \/ DeliverMatching
  \/ Decode

SpecRound == InitRound /\ [][NextRound]_vars

\* A binary transfer has been configured and has not completed.
InTransfer ==
  /\ mark.cfg = "Ok"
  /\ mark.c.state \in BinStates
  /\ mark.c.bin_remain > 0

\* A host that lets a transfer run: it keeps reading bytes from the transport
\* and calling decode while the buffer holds bytes, and makes no configuration
\* call while a transfer it has configured is under way.  The transport
\* delivers MaxStream bytes in all, and a transfer is asked for only when the
\* bytes still to come can complete it.
TransferUnderWay == InTransfer /\ ~mark.failed

EnoughBytes(size) == Len(inbuf) + (MaxStream - sent) >= size

ConfigureTransfer ==
  /\ Running
  /\ ~TransferUnderWay
  /\ \E size \in 0..MaxSize :
       /\ EnoughBytes(size)
       /\ \/ Configured("expect_chunks", size,
                        expect_chunks(codec, sink, size))
          \/ Configured("expect_bytes", size, expect_bytes(codec, sink, size))
          \/ Configured("expect_bytesmut", size,
                        expect_bytesmut(codec, sink, size))
          \/ \E pathname \in Paths, created \in BOOLEAN :
               Configured("expect_file", size,
                          expect_file(codec, sink, pathname, size, created))
          \/ Configured("expect_writer", size,
                        expect_writer(codec, sink, size))
          \/ Configured("skip", size, skip(codec, sink, size))

ConfigureLines ==
  /\ ~TransferUnderWay
  /\ ExpectParams \/ ExpectKVLines

\* The decode call the host makes while a transfer is under way and the
\* buffer holds bytes.
DecodeAvailable == TransferUnderWay /\ inbuf # <<>> /\ Decode

NextLive ==
  \/ Receive
  \/ Decode
  \/ ConfigureTransfer
  \/ ConfigureLines

SpecLive ==
  /\ Init
  /\ [][NextLive]_vars
  /\ WF_vars(Receive)
  /\ WF_vars(DecodeAvailable)

\* Configuration calls made only before the first decode call or right after
\* a completed value, as an application that follows the protocol makes them
\* (tests/tg_to_expect.rs), on a codec with or without a maximum line length.
AtBoundary == call.op # "decode" \/ IsCompletion(ret)

NextBoundary ==
  \/ Receive
  \/ Decode
  \/ AtBoundary /\ ExpectChunks
  \/ AtBoundary /\ ExpectBytes
  \/ AtBoundary /\ ExpectBytesMut
  \/ AtBoundary /\ ExpectFile
  \/ AtBoundary /\ ExpectWriter
  \/ AtBoundary /\ ExpectParams
  \/ AtBoundary /\ ExpectKVLines
  \/ AtBoundary /\ Skip

SpecBoundary == InitLines /\ [][NextBoundary]_vars

\* A configuration call may come while a line is pending: a chunked transfer
\* and a unique-map frame asked for at any moment, on a longer stream.
ReceiveReconf == ReceiveFrom(Alphabet, MaxReconf)

NextReconf ==
  \/ ReceiveReconf
  \/ Decode
  \/ ExpectChunks
  \/ ExpectParams

SpecReconf == Init /\ [][NextReconf]_vars

\* The line modes alone, with a maximum line length and a richer alphabet.
NextLines ==
  \/ ReceiveLine
  \/ Decode
  \/ ExpectParams
  \/ ExpectKVLines

SpecLines == InitLines /\ [][NextLines]_vars

\* The line modes on bytes that are not all text: 255 occurs in no UTF-8
\* encoding.
TextAlphabet == {LF, CR, 97, 255}

ReceiveText == ReceiveFrom(TextAlphabet, MaxText)

NextText ==
  \/ ReceiveText
  \/ Decode
  \/ ExpectParams
  \/ ExpectKVLines

SpecText == Init /\ [][NextText]_vars

\* Whole frames: the peer sends one line at a time, each ended by LF, a line
\* reaches the input buffer in one piece, decode is called at any moment, and
\* the host asks for a unique map or an ordered list between two frames.
WireLines ==
  {<<>>, <<97>>, <<97, SP, 98>>, <<97, SP, SP, 98>>, <<98, SP>>, <<SP, 97>>}

SendLine ==
  /\ Running
  /\ sent < MaxLines
  /\ \E line \in WireLines :
       /\ inbuf' = inbuf \o Append(line, LF)
       /\ mark' = [mark EXCEPT !.in = @ \o Append(line, LF)]
  /\ sent' = sent + 1
  /\ UNCHANGED <<codec, sink, ret, call, ncfg, wire, scn>>

\* Nothing of a frame has been sent since the last value was returned.
BetweenFrames ==
  /\ inbuf = <<>>
  /\ mark.in = <<>>

AskParams == BetweenFrames /\ ExpectParams

AskKVLines == BetweenFrames /\ ExpectKVLines

NextFrames ==
  \/ SendLine
  \/ Decode
  \/ AskParams
  \/ AskKVLines

SpecFrames == Init /\ [][NextFrames]_vars

-----------------------------------------------------------------------------
\* Properties.

Frames == {"Telegram", "Params", "KVLines"}

\* A write_all that succeeds.
WriteOk == [ok |-> TRUE, n |-> 0]

\* A decode call made in a line mode.
LineDecode == Decode /\ codec.state \in LineStates

\* The bytes that may follow those received so far.
Exts == UNION {[1..n -> Alphabet] : n \in 0..MaxExt}

\* C1 as stated: the bytes of a frame appended in any split, with a decode
\* call after each part, give what a single decode call on all of them
\* gives.  At every decode call on a non-empty buffer, in a run that has not
\* failed since the last configuration call or completed value, and for all
\* bytes ext that may follow: if a single call on the bytes received since the
\* last configuration call or completed value, ext appended, returns a frame,
\* then this call has asked for more data (it must not if ext is empty) or
\* has returned the same frame, with the same codec (its mode included) and
\* the same bytes left in the buffer.
C1_AsStated ==
  [][(LineDecode /\ inbuf # <<>> /\ ~mark.failed)
       => \A ext \in Exts :
            LET one == decode(mark.c, mark.in \o ext, <<>>, WriteOk)
            IN  (one.ret.kind \in Frames \/ (ext = <<>> /\ ret'.kind \in Frames))
                  => \/ ext # <<>> /\ ret'.kind = "None"
                     \/ /\ ret' = one.ret
                        /\ codec' = one.self
                        /\ inbuf' \o ext = one.buf]_vars

\* The buffer begins with more than m bytes that hold no LF.
Overlong(b, m) == Len(b) > m /\ \A i \in 1..(m + 1) : b[i] # LF

\* No more than m bytes in a row of p are free of LF.
NoRunLonger(p, m) ==
  Len(p) > m => \A i \in 1..(Len(p) - m) : \E j \in i..(i + m) : p[j] = LF

\* The position of the first LF of b, 0 when it has none.
FirstLF(b) ==
  IF \E i \in 1..Len(b) : b[i] = LF
  THEN CHOOSE i \in 1..Len(b) : b[i] = LF /\ \A j \in 1..(i - 1) : b[j] # LF
  ELSE 0

\* C2 as amended: a line with more than M bytes before its LF makes decode
\* fail with BadFormat and stays in the buffer; decode never asks for more
\* data while such a line is at the front of the buffer, and never removes a
\* line with more than M bytes before its LF, however the bytes arrived.
C2_MaxLineLength ==
  [][LineDecode
       => LET m == codec.max_line_length
              removed == TakeN(inbuf, Len(inbuf) - Len(inbuf'))
          IN  /\ Overlong(inbuf, m) => ret' = TooLong /\ inbuf' = inbuf
              /\ ret'.kind = "None" => ~Overlong(inbuf', m)
              /\ NoRunLonger(removed, m)]_vars

\* A decode call that followed one that had asked for more data failed
\* because the line is too long.
C2_Witness == call.op = "decode" /\ call.resumed /\ ret = TooLong

\* C2 as stated: a line whose length including its LF exceeds M makes decode
\* fail with BadFormat.
C2_AsStated ==
  [][(LineDecode /\ FirstLF(inbuf) > codec.max_line_length)
       => ret'.kind = "Err" /\ ret'.err = "BadFormat"]_vars

\* The position of the LF of the first empty line of b (a line that is
\* empty, or a lone CR), the lines counted from position start; 0 when b has
\* no empty line.
RECURSIVE EndOfFrameFrom(_, _)
EndOfFrameFrom(b, start) ==
  IF \A i \in start..Len(b) : b[i] # LF THEN 0
  ELSE LET p == CHOOSE i \in start..Len(b) :
                  b[i] = LF /\ \A j \in start..(i - 1) : b[j] # LF
       IN  IF p = start \/ (p = start + 1 /\ b[start] = CR) THEN p
           ELSE EndOfFrameFrom(b, p + 1)

EndOfFrame(b) == EndOfFrameFrom(b, 1)

\* C6 as stated: a decode call in a line mode that returns a completed frame
\* removes from the front of the buffer the bytes up to and including the LF
\* of the first empty line, and leaves every byte after it in the buffer.
C6_AsStated ==
  [][(LineDecode /\ ret'.kind \in Frames)
       => LET n == EndOfFrame(inbuf)
          IN  n >= 1 /\ inbuf[n] = LF /\ inbuf' = DropN(inbuf, n)]_vars


-----------------------------------------------------------------------------
\* Binary transfers.  A transfer is configured when a call expecting S > 0
\* bytes has returned Ok; mark holds the codec and the input buffer as that
\* call left them, and the bytes received since.

SizeOps == {"expect_chunks", "expect_bytes", "expect_bytesmut", "expect_file",
            "expect_writer", "skip"}

TransferDecode == Decode /\ InTransfer

Removed(b) == Len(mark.in) - Len(b)

\* Where the bytes of the transfer go, by mode: all of those removed from the
\* input so far are accounted for.
Accounted(c, b, snk, r) ==
  LET n == Removed(b)
  IN  CASE mark.c.state = "Chunks" ->
             mark.out \o (IF r.kind = "Chunk" THEN r.bytes ELSE <<>>)
               = TakeN(mark.in, n)
        [] mark.c.state \in {"Bytes", "BytesMut"} ->
             (IF IsCompletion(r) THEN r.bytes ELSE c.buf) = TakeN(mark.in, n)
        [] mark.c.state \in {"File", "Writer"} -> snk = TakeN(mark.in, n)
        [] OTHER -> TRUE

CompletionOf(state) ==
  CASE state = "Params" -> "Params"
    [] state = "KVLines" -> "KVLines"
    [] state = "Chunks" -> "Chunk"
    [] state = "Bytes" -> "Bytes"
    [] state = "BytesMut" -> "BytesMut"
    [] state = "File" -> "File"
    [] state = "Writer" -> "WriteDone"
    [] state = "Skip" -> "SkipDone"
    [] OTHER -> "Telegram"

C4_RevertsToTelegram ==
  [][(Decode /\ codec.state # "Telegram")
       => /\ IsCompletion(ret')
               => ret'.kind = CompletionOf(codec.state)
                    /\ codec'.state = "Telegram"
          /\ (ret'.kind = "None" \/ (ret'.kind = "Chunk" /\ ret'.remain > 0))
               => codec'.state = codec.state]_vars

C4_Witness ==
  /\ call.op = "decode"
  /\ call.resumed
  /\ ret.kind = "Bytes"
  /\ codec.state = "Telegram"
  /\ ncfg = 1

\* C5 as stated: each of the six size-taking calls, given size 0, fails with
\* InvalidSize and changes nothing.  expect_chunks(0) does not.
C5_AsStated ==
  [][(ncfg' = ncfg + 1 /\ call'.op \in SizeOps /\ call'.size = 0)
       => ret' = InvalidSize /\ codec' = codec /\ sink' = sink]_vars

\* C7: with the telegram and S bytes of payload on one stream, decode first
\* returns the telegram as it was sent and leaves the payload untouched, in
\* the buffer or still on the wire; after the application's
\* expect_bytesmut(S) it returns exactly the payload; and once all the bytes
\* have arrived a decode call does not ask for more.
C7_TelegramThenPayload ==
  [][/\ Decode
          => /\ ret'.kind \in {"None", "Telegram", "BytesMut"}
             /\ ret'.kind = "Telegram"
                  => /\ ncfg = 0
                     /\ ret'.tg = scn.tg
                     /\ inbuf' \o wire = scn.payload
             /\ ret'.kind = "BytesMut"
                  => /\ ncfg = 1
                     /\ ret'.bytes = scn.payload
                     /\ inbuf' = <<>> /\ wire = <<>>
             /\ wire = <<>> => ret'.kind # "None"
     /\ ExpectPayload => ret'.kind = "Ok" /\ inbuf' \o wire = scn.payload]_vars

C7_Witness ==
  /\ ret.kind = "BytesMut"
  /\ call.resumed
  /\ Len(ret.bytes) >= 2
  /\ \E p \in scn.tg.params : p[2] # <<>> /\ p[2][1] = SP

\* C8: in Chunks mode with S > 0 configured, a decode call on a non-empty
\* buffer returns a non-empty chunk, the first min(remaining, buffered)
\* bytes, with S less the bytes delivered so far, this chunk included, as
\* its remaining count; the count is 0 exactly when the mode reverts to
\* Telegram, so on the last chunk only.
C8_Chunks ==
  [][(TransferDecode /\ mark.c.state = "Chunks" /\ inbuf # <<>>)
       => LET n == Min(codec.bin_remain, Len(inbuf))
          IN  /\ ret'.kind = "Chunk"
              /\ ret'.bytes # <<>>
              /\ ret'.bytes = TakeN(inbuf, n)
              /\ inbuf' = DropN(inbuf, n)
              /\ ret'.remain = mark.c.bin_remain - (Len(mark.out) + n)
              /\ ret'.remain >= 0
              /\ ret'.remain = 0 <=> codec'.state = "Telegram"
              /\ ret'.remain > 0 <=> codec'.state = "Chunks"]_vars

C8_Witness ==
  /\ call.op = "decode"
  /\ ret.kind = "Chunk"
  /\ ret.remain > 0
  /\ mark.out = ret.bytes
  /\ codec.state = "Chunks"

\* C9: in Bytes or BytesMut mode with S > 0 configured, decode asks for more
\* data as long as fewer than S bytes have been received for the transfer,
\* and on the call that finds the S-th byte returns one buffer holding
\* exactly those S bytes in order, and reverts to Telegram mode.
C9_WholeBuffer ==
  [][(TransferDecode /\ mark.c.state \in {"Bytes", "BytesMut"})
       => IF Len(mark.in) < mark.c.bin_remain
          THEN ret'.kind = "None" /\ codec'.state = mark.c.state
          ELSE /\ ret'.kind = mark.c.state
               /\ ret'.bytes = TakeN(mark.in, mark.c.bin_remain)
               /\ codec'.state = "Telegram"]_vars

C9_Witness ==
  /\ call.op = "decode"
  /\ call.resumed
  /\ ret.kind = "BytesMut"
  /\ Len(ret.bytes) >= 2
  /\ inbuf # <<>>

-----------------------------------------------------------------------------
\* Configuration of a file transfer.

CreateFailed == Err("IO", "create failed")

\* C11: an expect_file call with size > 0 either returns Ok, and then the
\* codec holds the file it has just created (empty), or returns the IO error
\* of the failed creation, and then holds no new file; no decode call ever
\* reports a failed creation.
C11_CreatedAtConfiguration ==
  [][/\ (ncfg' = ncfg + 1 /\ call'.op = "expect_file" /\ call'.size > 0)
          => \/ /\ ret'.kind = "Ok"
                /\ codec'.writer = Some("File")
                /\ sink' = <<>>
             \/ /\ ret' = CreateFailed
                /\ codec'.writer = codec.writer
                /\ sink' = sink
     /\ Decode => ret' # CreateFailed]_vars

C11_Witness ==
  /\ call.op = "expect_file"
  /\ call.size > 0
  /\ ret = CreateFailed

-----------------------------------------------------------------------------
\* The records decoded from whole frames.

\* The text of a line: the line without the CR that may end it.
TextOf(l) ==
  IF l # <<>> /\ l[Len(l)] = CR THEN SubSeq(l, 1, Len(l) - 1) ELSE l

\* The texts of the lines of b, in order: a line is the bytes between one LF
\* and the next; bytes after the last LF belong to no line yet.
RECURSIVE TextsOf(_)
TextsOf(b) ==
  LET i == FirstLF(b)
  IN  IF i = 0 THEN <<>>
      ELSE <<TextOf(SubSeq(b, 1, i - 1))>> \o TextsOf(SubSeq(b, i + 1, Len(b)))

HasSpace(t) == \E i \in 1..Len(t) : t[i] = SP

\* The key and the value of a text that holds a space.
FirstSpace(t) ==
  CHOOSE i \in 1..Len(t) : t[i] = SP /\ \A j \in 1..(i - 1) : t[j] # SP

PairOf(t) ==
  <<SubSeq(t, 1, FirstSpace(t) - 1), SubSeq(t, FirstSpace(t) + 1, Len(t))>>

\* The pairs of the texts from the from-th on, in line order.
RECURSIVE PairsFrom(_, _)
PairsFrom(texts, from) ==
  IF from > Len(texts) THEN <<>>
  ELSE IF HasSpace(texts[from])
  THEN <<PairOf(texts[from])>> \o PairsFrom(texts, from + 1)
  ELSE PairsFrom(texts, from + 1)

\* The mapping a sequence of pairs builds: the last pair of a key gives its value.
MapOf(pairs) ==
  {pairs[i] : i \in {j \in 1..Len(pairs) :
                       \A k \in (j + 1)..Len(pairs) : pairs[k][1] # pairs[j][1]}}

\* The bytes a decode step has removed since the mark.
Taken == TakeN(mark.in, Len(mark.in) - Len(inbuf'))

\* A decode step on a frame that began in the given mode with an empty
\* accumulator and in which no decode call has failed.
FrameDecode(state) ==
  /\ mark.c.state = state
  /\ mark.c.tg = NewTelegram
  /\ mark.c.params = NewParams
  /\ mark.c.kvlines = NewKVLines
  /\ ~mark.failed
  /\ call'.op = "decode"
  /\ Decode

\* All texts but the last are non-empty, and the last is empty.
EndsAtEmptyLine(texts) ==
  /\ Len(texts) >= 1
  /\ texts[Len(texts)] = <<>>
  /\ \A i \in 1..(Len(texts) - 1) : texts[i] # <<>>

\* The key of the last text, when that text holds a space.
LastKey(texts) ==
  IF HasSpace(texts[Len(texts)]) THEN Some(PairOf(texts[Len(texts)])[1])
  ELSE None

\* C12: a decode call that returns a topic-record has removed exactly the
\* lines of one frame, up to and including its first empty line; the record's
\* topic is the first line when that line is not empty, and its parameter map
\* is built, in line order, from the later lines that hold a space, each split
\* at its first space into key and value (further spaces belong to the value);
\* decode does not ask for more data once the empty line has arrived, and
\* fails only at a first line that is no valid topic or at a line whose key
\* is not valid.
C12_TopicRecord ==
  [][FrameDecode("Telegram") =>
       LET texts == TextsOf(Taken)
       IN  /\ ret'.kind = "Telegram"
                => /\ mark.in = Taken \o inbuf'
                   /\ EndsAtEmptyLine(texts)
                   /\ ret'.tg.topic = IF Len(texts) > 1 THEN Some(texts[1])
                                      ELSE None
                   /\ ret'.tg.params = MapOf(PairsFrom(texts, 2))
           /\ ret'.kind = "None"
                => \A i \in 1..Len(TextsOf(mark.in)) : TextsOf(mark.in)[i] # <<>>
           /\ ret'.kind = "Err"
                => /\ mark.in = Taken \o inbuf'
                   /\ Len(texts) >= 1
                   /\ IF Len(texts) = 1 THEN validate_topic(texts[1]) # ""
                      ELSE /\ IsSome(LastKey(texts))
                           /\ validate_param_key(Unwrap(LastKey(texts))) # ""]_vars

C12_Witness ==
  /\ call.op = "decode"
  /\ ncfg = 0
  /\ sent = 3
  /\ ret.kind = "Telegram"
  /\ ret.tg.topic = Some(<<97>>)
  /\ ret.tg.params = {<<<<97>>, <<SP, 98>>>>}

\* C13: a decode call that returns a unique map has removed exactly the lines
\* of one frame, up to and including its first empty line, and the map holds,
\* for every key of a line of the frame that holds a space, the value of the
\* last such line with that key, and nothing else; decode does not ask for
\* more data once the empty line has arrived, and fails only at a line whose
\* key is not valid.
C13_UniqueMap ==
  [][FrameDecode("Params") =>
       LET texts == TextsOf(Taken)
           pairs == PairsFrom(texts, 1)
       IN  /\ ret'.kind = "Params"
                => /\ mark.in = Taken \o inbuf'
                   /\ EndsAtEmptyLine(texts)
                   /\ ret'.params = MapOf(pairs)
                   /\ \A q \in ret'.params : validate_param_key(q[1]) = ""
           /\ ret'.kind = "None"
                => \A i \in 1..Len(TextsOf(mark.in)) : TextsOf(mark.in)[i] # <<>>
           /\ ret'.kind = "Err"
                => /\ mark.in = Taken \o inbuf'
                   /\ Len(texts) >= 1
                   /\ IsSome(LastKey(texts))
                   /\ validate_param_key(Unwrap(LastKey(texts))) # ""]_vars

C13_Witness ==
  /\ call.op = "decode"
  /\ call.resumed
  /\ ncfg = 1
  /\ sent = 3
  /\ inbuf = <<>>
  /\ ret.kind = "Params"
  /\ ret.params = {<<<<97>>, <<SP, 98>>>>, <<<<98>>, <<>>>>}

\* C14: a decode call that returns an ordered list has removed exactly the
\* lines of one frame, up to and including its first empty line, and the list
\* is the sequence of the (key, value) pairs of the lines of the frame that
\* hold a space, in line order, whatever the keys are and however often a key
\* or a pair occurs; decode does not ask for more data once the empty line has
\* arrived, and no key makes it fail.
C14_OrderedList ==
  [][FrameDecode("KVLines") =>
       /\ ret'.kind = "KVLines"
            => /\ mark.in = Taken \o inbuf'
               /\ EndsAtEmptyLine(TextsOf(Taken))
               /\ ret'.kvlines = PairsFrom(TextsOf(Taken), 1)
       /\ ret'.kind = "None"
            => \A i \in 1..Len(TextsOf(mark.in)) : TextsOf(mark.in)[i] # <<>>
       /\ ret'.kind # "Err"]_vars

C14_Witness ==
  /\ call.op = "decode"
  /\ ncfg = 1
  /\ sent = 4
  /\ ret.kind = "KVLines"
  /\ ret.kvlines = <<<<<<97>>, <<98>>>>, <<<<>>, <<97>>>>, <<<<97>>, <<98>>>>>>

\* A non-empty ASCII text that is no topic: its first character is no letter,
\* or a later one is neither a letter, a digit, '_' nor '-'.
NoTopic(t) ==
  \/ ~IsAsciiAlpha(t[1])
  \/ \E i \in 2..Len(t) :
       ~(IsAsciiAlpha(t[i]) \/ IsAsciiDigit(t[i]) \/ t[i] = 95 \/ t[i] = 45)

\* C15: the decode call that reads the first line of a topic-record frame,
\* when that line is not empty and is no valid topic, fails with BadFormat; it
\* returns no record, removes that line and no more, and leaves the
\* accumulator without topic and without parameters.
C15_InvalidTopic ==
  [][(/\ FrameDecode("Telegram")
      /\ inbuf = mark.in
      /\ TextsOf(inbuf) # <<>>
      /\ TextsOf(inbuf)[1] # <<>>
      /\ NoTopic(TextsOf(inbuf)[1]))
       => /\ ret'.kind = "Err"
          /\ ret'.err = "BadFormat"
          /\ inbuf' = DropN(inbuf, FirstLF(inbuf))
          /\ codec'.tg = NewTelegram]_vars

C15_Witness ==
  /\ call.op = "decode"
  /\ ncfg = 0
  /\ sent = 2
  /\ mark.in = <<97, SP, 98, LF, LF>>
  /\ inbuf = <<LF>>
  /\ ret = Err("BadFormat", "Invalid topic character")

-----------------------------------------------------------------------------
\* Lines that are not text.

\* The first line of the buffer, without the CR that may end it.
FirstText(b) == TextOf(SubSeq(b, 1, FirstLF(b) - 1))

\* C16 as stated: a decode call made in a line mode on a buffer whose first
\* line is not valid UTF-8 fails with an error of kind BadFormat.
C16_AsStated ==
  [][(/\ LineDecode
      /\ FirstLF(inbuf) > 0
      /\ ~utf8(FirstText(inbuf)))
       => /\ ret'.kind = "Err"
          /\ ret'.err = "BadFormat"]_vars

\* What the code does instead: the error is of kind IO.
C16_Observed ==
  [][(/\ LineDecode
      /\ FirstLF(inbuf) > 0
      /\ ~utf8(FirstText(inbuf)))
       => ret' = BadUtf8]_vars

-----------------------------------------------------------------------------
\* Encoding.

\* C17: encoding a telegram whose topic is unset returns SerializeError and
\* leaves the output buffer as it was.
C17_MissingTopic ==
  [][(/\ call'.op = "encode"
      /\ ncfg' = ncfg + 1
      /\ ~IsSome(scn'.tg.topic))
       => /\ ret'.kind = "Err"
          /\ ret'.err = "SerializeError"
          /\ wire' = wire]_vars

C17_Witness ==
  /\ call.op = "encode"
  /\ ~IsSome(scn.tg.topic)
  /\ scn.tg.params # NewParams
  /\ ret = Err("SerializeError", "Missing Telegram topic")
  /\ wire # <<>>

-----------------------------------------------------------------------------
\* Rejected configuration calls.

\* C18: expect_bytes(0) returns InvalidSize and leaves the mode, the remaining
\* count, the internal buffer and the input buffer as they were, in whatever
\* mode the call is made.
C18_ExpectBytesZero ==
  [][(ncfg' = ncfg + 1 /\ call'.op = "expect_bytes" /\ call'.size = 0)
       => /\ ret' = InvalidSize
          /\ codec'.state = codec.state
          /\ codec'.bin_remain = codec.bin_remain
          /\ codec'.buf = codec.buf
          /\ inbuf' = inbuf]_vars

C18_Witness ==
  /\ call.op = "expect_bytes"
  /\ call.size = 0
  /\ ret = InvalidSize
  /\ codec.state = "BytesMut"
  /\ codec.bin_remain = 1
  /\ codec.buf # <<>>

-----------------------------------------------------------------------------
\* Consecutive frames.

\* C19: on a codec that has had no configuration call, a decode call that
\* returns a topic-record removes the lines of the earliest frame still in the
\* buffer and no byte of a later frame, returns a record whose topic and
\* parameters are those of the lines it has removed since the previous record
\* was returned, and leaves an empty accumulator for the next frame.
C19_FramesInOrder ==
  [][(/\ Decode
      /\ ncfg = 0
      /\ ~mark.failed
      /\ ret'.kind = "Telegram")
       => LET texts == TextsOf(Taken)
          IN  /\ mark.in = Taken \o inbuf'
              /\ EndsAtEmptyLine(texts)
              /\ ret'.tg = [topic |-> IF Len(texts) > 1 THEN Some(texts[1])
                                      ELSE None,
                            params |-> MapOf(PairsFrom(texts, 2))]
              /\ codec'.tg = NewTelegram]_vars

\* The first of two frames has been returned; the second is still in the
\* buffer.
C19_Witness ==
  /\ call.op = "decode"
  /\ ncfg = 0
  /\ sent = 4
  /\ ret.kind = "Telegram"
  /\ ret.tg.topic = Some(<<97>>)
  /\ ret.tg.params = {<<<<97>>, <<98>>>>}
  /\ inbuf = <<LF>>
  /\ codec.tg = NewTelegram

-----------------------------------------------------------------------------
\* Carriage returns.

\* The positions of b that hold the CR of a CR LF pair which ends a line that
\* does not itself end in CR.
EndingCR(b) ==
  {i \in 1..(Len(b) - 1) :
     b[i] = CR /\ b[i + 1] = LF /\ (i = 1 \/ b[i - 1] # CR)}

\* b with those lines ended by LF alone.
RECURSIVE WithoutAt(_, _, _)
WithoutAt(b, drop, i) ==
  IF i > Len(b) THEN <<>>
  ELSE IF i \in drop THEN WithoutAt(b, drop, i + 1)
  ELSE <<b[i]>> \o WithoutAt(b, drop, i + 1)

LFOnly(b) == WithoutAt(b, EndingCR(b), 1)

\* Every line of b, the CR before its LF included, is at most m bytes long.
LinesFit(b, m) ==
  \A i \in 1..Len(b) :
    b[i] = LF =>
      \E j \in 0..(i - 1) : j >= i - m - 1 /\ (j = 0 \/ b[j] = LF)

\* The decode call on the buffer and the same call on the buffer with its
\* lines ended by LF alone return the same value, leave the same codec, and
\* leave buffers that differ in the line ends only.
SameAsLFOnly ==
  LET d == decode(codec, inbuf, sink, WriteOk)
      u == decode(codec, LFOnly(inbuf), sink, WriteOk)
  IN  /\ d.ret = u.ret
      /\ d.self = u.self
      /\ LFOnly(d.buf) = u.buf
      /\ ret' = d.ret

\* The first line of the buffer ends in two CRs.
FirstEndsInTwoCR(b) ==
  /\ FirstLF(b) > 2
  /\ b[FirstLF(b) - 1] = CR
  /\ b[FirstLF(b) - 2] = CR

\* A decode call in a line mode that starts at the beginning of a line.
DecodeAtLineStart == LineDecode /\ codec.next_line_index = 0

-----------------------------------------------------------------------------
\* Topics and keys.

\* The text is a topic: not empty, a letter first, then letters, digits, '_'
\* and '-' only.
IsTopic(t) ==
  /\ t # <<>>
  /\ IsAsciiAlpha(t[1])
  /\ \A i \in 2..Len(t) :
       IsAsciiAlpha(t[i]) \/ IsAsciiDigit(t[i]) \/ t[i] = 95 \/ t[i] = 45

\* The message that goes with a text that is no topic.
TopicError(t) ==
  IF t = <<>> THEN "Empty or broken topic"
  ELSE IF ~IsAsciiAlpha(t[1]) THEN "Invalid leading topic character"
  ELSE "Invalid topic character"

\* C21: validate_topic accepts a string exactly when it is a topic;
\* set_topic then sets the topic and leaves the parameters alone, and
\* new_topic returns a telegram with that topic and no parameter; for any
\* other string both fail with BadFormat and the message of the first rule
\* the string breaks, and the telegram in hand is left as it was.
C21_TopicValidation ==
  [][(call'.op \in {"set_topic", "new_topic"} /\ ncfg' = ncfg + 1) =>
       LET t == scn.arg[1]
       IN  /\ (validate_topic(t) = "") = IsTopic(t)
           /\ IsTopic(t) =>
                /\ ret' = Ret("Ok")
                /\ scn'.tg.topic = Some(t)
                /\ scn'.tg.params = IF call'.op = "set_topic"
                                    THEN scn.tg.params ELSE NewParams
           /\ ~IsTopic(t) =>
                /\ ret' = Err("BadFormat", TopicError(t))
                /\ scn'.tg = scn.tg]_vars

C21_Witness ==
  /\ call.op = "set_topic"
  /\ scn.arg[1] = <<97, 33>>
  /\ ret = Err("BadFormat", "Invalid topic character")
  /\ scn.tg.topic = Some(<<104, 105>>)

\* The text is a key: not empty, and letters, digits and ASCII punctuation
\* only.
IsKey(t) ==
  /\ t # <<>>
  /\ \A i \in 1..Len(t) :
       IsAsciiAlpha(t[i]) \/ IsAsciiDigit(t[i]) \/ IsAsciiPunct(t[i])

\* C22: validate_param_key accepts a string exactly when it is a key;
\* add_param, on a unique map and on a telegram, then maps the key to the
\* value, in place of the value the key had, and leaves the other entries and
\* the topic alone; an empty key fails with BadFormat 'Empty or broken key',
\* any other string with BadFormat 'Invalid key character', and the map and
\* the telegram are left as they were.
C22_KeyValidation ==
  [][(call'.op = "add_param" /\ ncfg' = ncfg + 1) =>
       LET k == scn.arg[1]
           v == scn.arg[2]
           hm == scn.tg.params
       IN  /\ (validate_param_key(k) = "") = IsKey(k)
           /\ IsKey(k) =>
                /\ ret' = Ret("Ok")
                /\ scn'.tg.topic = scn.tg.topic
                /\ scn'.tg.params = {q \in hm : q[1] # k} \cup {<<k, v>>}
                /\ add_param(hm, k, v) = [hm |-> scn'.tg.params, err |-> ""]
           /\ ~IsKey(k) =>
                /\ ret' = Err("BadFormat",
                              IF k = <<>> THEN "Empty or broken key"
                              ELSE "Invalid key character")
                /\ scn'.tg = scn.tg
                /\ add_param(hm, k, v) = [hm |-> hm, err |-> ret'.msg]]_vars

C22_Witness ==
  /\ call.op = "add_param"
  /\ scn.arg[1] = <<97, SP>>
  /\ ret = Err("BadFormat", "Invalid key character")
  /\ scn.tg.params = {<<<<97>>, <<118>>>>}

-----------------------------------------------------------------------------
\* Sizes.

\* Key length + value length + 2 for every pair of the sequence.
RECURSIVE PairBytes(_)
PairBytes(pairs) ==
  IF pairs = <<>> THEN 0
  ELSE Len(pairs[1][1]) + Len(pairs[1][2]) + 2 + PairBytes(Tail(pairs))

\* The pairs of a map in some order.
SomeOrder(hm) == CHOOSE o \in Orders(hm) : TRUE

\* C23: an encode call that succeeds appends exactly the number of bytes its
\* calc_buf_size computed before writing, and leaves the bytes already in the
\* buffer alone; that number is the topic length + 1 for a telegram, plus key
\* length + value length + 2 for every pair, plus 1, for telegrams, unique
\* maps and ordered lists alike.
C23_BufSize ==
  [][(call'.op \in {"encode_telegram", "encode_params", "encode_kvlines"}
      /\ ncfg' = ncfg + 1
      /\ ret' = Ret("Ok"))
       => /\ Len(wire') = Len(wire) + call'.size
          /\ TakeN(wire', Len(wire)) = wire
          /\ call'.size =
               CASE call'.op = "encode_telegram" ->
                      Len(Unwrap(scn.tg.topic)) + 1
                        + PairBytes(SomeOrder(scn.tg.params)) + 1
                 [] call'.op = "encode_params" ->
                      PairBytes(SomeOrder(scn.tg.params)) + 1
                 [] call'.op = "encode_kvlines" -> PairBytes(scn.kv) + 1]_vars

C23_Witness ==
  /\ call.op = "encode_telegram"
  /\ ret = Ret("Ok")
  /\ Cardinality(scn.tg.params) = 2
  /\ call.size = Len(wire)
  /\ call.size > 8

-----------------------------------------------------------------------------
\* Binary transfers and the input buffer.

BinaryStates == {"Chunks", "Bytes", "BytesMut", "File", "Writer", "Skip"}

\* The decode step takes min(remaining, buffer length) bytes from the front of
\* the buffer and from the remaining count.
TakesWhatRemains ==
  LET n == Min(codec.bin_remain, Len(inbuf))
  IN  /\ codec'.bin_remain = codec.bin_remain - n
      /\ codec'.bin_remain >= 0
      /\ inbuf' = DropN(inbuf, n)

\* C24: every decode call in a binary mode lowers the remaining count by
\* min(remaining, buffer length), never below 0, and takes exactly that many
\* bytes from the front of the input buffer, leaving the surplus unchanged.
C24_AsStated ==
  [][(Decode /\ codec.state \in BinaryStates)
       => TakesWhatRemains]_vars

\* What the code does: the same, except in File mode without a writer (the
\* count drops and the bytes stay) and when the write fails (the bytes go
\* and the count stays).
C24_Observed ==
  [][(Decode /\ codec.state \in BinaryStates)
       => \/ TakesWhatRemains
          \/ /\ codec.state = "File"
             /\ codec.writer = None
             /\ inbuf' = inbuf
             /\ codec'.bin_remain =
                  codec.bin_remain - Min(codec.bin_remain, Len(inbuf))
          \/ /\ codec.state \in {"File", "Writer"}
             /\ ret' = WriteFailed
             /\ codec' = codec
             /\ inbuf' = DropN(inbuf, Min(codec.bin_remain, Len(inbuf)))]_vars

-----------------------------------------------------------------------------
\* The line scanner's contract.

\* The positions of the LFs in the window [cursor, min(max + 1, length)) of
\* the buffer a decode call starts on (positions counted from 1).
WindowHits ==
  {i \in (codec.next_line_index + 1)
           ..Min(SatAdd1(codec.max_line_length), Len(inbuf)) : inbuf[i] = LF}

FirstHit == CHOOSE i \in WindowHits : \A j \in WindowHits : i <= j

\* C25: the first search of a decode call in a line mode looks for an LF in
\* the window [cursor, min(max_line_length + 1, buffer length)).  With none
\* and a buffer no longer than max_line_length the call asks for more data,
\* takes nothing and leaves the cursor at the buffer length; with none and a
\* longer buffer it fails with BadFormat; with an LF at offset o the o + 1
\* bytes of the line are taken and the cursor restarts from 0, so that the
\* call leaves it at 0 or, having asked for more data, at the length of what
\* is left.
C25_AsStated ==
  [][(Decode /\ codec.state \in LineStates)
       => IF WindowHits = {}
          THEN IF Len(inbuf) <= codec.max_line_length
               THEN /\ ret'.kind = "None"
                    /\ inbuf' = inbuf
                    /\ codec'.next_line_index = Len(inbuf)
               ELSE ret' = TooLong
          ELSE /\ Len(inbuf') <= Len(inbuf) - FirstHit
               /\ inbuf' = DropN(inbuf, Len(inbuf) - Len(inbuf'))
               /\ codec'.next_line_index =
                    IF ret'.kind = "None" THEN Len(inbuf') ELSE 0]_vars

-----------------------------------------------------------------------------
\* Lines that are not key/value lines.

\* The buffer starts with a complete line, within the length limit, that is
\* not empty and holds no space, where a key/value line is expected.
LineWithoutSpaceFirst ==
  /\ FirstLF(inbuf) > 0
  /\ FirstLF(inbuf) <= SatAdd1(codec.max_line_length)
  /\ FirstText(inbuf) # <<>>
  /\ ~HasSpace(FirstText(inbuf))
  /\ codec.state = "Telegram" => IsSome(codec.tg.topic)

\* C26: a decode call in a line mode on a buffer that starts with a non-empty
\* line without a space, where a key/value line is expected, consumes the
\* line and goes on exactly as if the buffer had started after it: when the
\* line is all there is, the call asks for more data with the buffer empty,
\* the accumulators and the mode as they were, and no error.
C26_LineWithoutSpace ==
  [][(LineDecode /\ LineWithoutSpaceFirst)
       => LET rest == DropN(inbuf, FirstLF(inbuf))
              d == decode([codec EXCEPT !.next_line_index = 0], rest, sink,
                          [ok |-> TRUE, n |-> 0])
          IN  /\ codec' = d.self
              /\ inbuf' = d.buf
              /\ ret' = d.ret
              /\ rest = <<>>
                   => /\ ret'.kind = "None"
                      /\ inbuf' = <<>>
                      /\ codec' = [codec EXCEPT !.next_line_index = 0]]_vars

\* The topic line "a", then the line "a", have been consumed: the telegram
\* being built has its topic and no parameter, and more data is asked for.
C26_Witness ==
  /\ call.op = "decode"
  /\ ret.kind = "None"
  /\ mark.in = <<97, LF, 97, LF>>
  /\ inbuf = <<>>
  /\ codec.state = "Telegram"
  /\ codec.tg = [topic |-> Some(<<97>>), params |-> NewParams]

-----------------------------------------------------------------------------
\* Key/value lines with an invalid key.

\* The buffer starts with a complete key/value line, within the length
\* limit, whose key breaks the key rule, where a key/value line is expected.
InvalidKeyFirst ==
  /\ FirstLF(inbuf) > 0
  /\ FirstLF(inbuf) <= SatAdd1(codec.max_line_length)
  /\ HasSpace(FirstText(inbuf))
  /\ ~IsKey(PairOf(FirstText(inbuf))[1])
  /\ codec.state = "Telegram" => IsSome(codec.tg.topic)

\* C27: a decode call on a buffer that starts with a key/value line whose key
\* is empty or holds a character that is neither alphanumeric nor ASCII
\* punctuation fails with BadFormat when a telegram or a unique map is being
\* decoded; when an ordered list is being decoded it appends the pair to the
\* list and goes on exactly as if the pair had been there and the buffer had
\* started after the line, asking for more data when the line is all there
\* is.
C27_InvalidKey ==
  [][(LineDecode /\ InvalidKeyFirst)
       => LET rest == DropN(inbuf, FirstLF(inbuf))
              pair == PairOf(FirstText(inbuf))
          IN  IF codec.state \in {"Telegram", "Params"}
              THEN /\ ret'.kind = "Err"
                   /\ ret'.err = "BadFormat"
                   /\ inbuf' = rest
              ELSE LET d == decode([codec EXCEPT
                                      !.next_line_index = 0,
                                      !.kvlines = Append(@, pair)],
                                   rest, sink, [ok |-> TRUE, n |-> 0])
                   IN  /\ codec' = d.self
                       /\ inbuf' = d.buf
                       /\ ret' = d.ret
                       /\ rest = <<>>
                            => /\ ret'.kind = "None"
                               /\ codec'.kvlines = Append(codec.kvlines, pair)]_vars

\* A unique map was being decoded and the line " a" made the call fail.
C27_Witness ==
  /\ call.op = "decode"
  /\ mark.c.state = "Params"
  /\ mark.in = <<SP, 97, LF>>
  /\ ret = Err("BadFormat", "Empty or broken key")
  /\ inbuf = <<>>

\* An ordered list was being decoded and the line " a" was appended to it.
C27_WitnessList ==
  /\ call.op = "decode"
  /\ codec.state = "KVLines"
  /\ mark.in = <<SP, 97, LF>>
  /\ ret.kind = "None"
  /\ codec.kvlines = <<<<<<>>, <<97>>>>>>

-----------------------------------------------------------------------------
\* File mode.

\* A decode call has returned BadState.
BadStateReturned ==
  call.op = "decode" /\ ret.kind = "Err" /\ ret.err = "BadState"

\* C28: whenever the mode is File a pathname is recorded and a writer is
\* held, and no decode call returns BadState.
C28_AsStated ==
  /\ codec.state = "File" => IsSome(codec.pathname) /\ IsSome(codec.writer)
  /\ ~BadStateReturned

-----------------------------------------------------------------------------
\* The topic of a telegram.

\* C29: a telegram whose topic is set has a topic that starts with an
\* alphabetic character and goes on with alphanumeric, '_' or '-' characters
\* only, whichever constructor, conversion or setter produced it.
C29_AsStated == IsSome(scn.tg.topic) => IsTopic(Unwrap(scn.tg.topic))

\* What the code ensures: the same, unless the telegram comes from
\* Telegram::from(String).
C29_Observed ==
  [][(ncfg' = ncfg + 1 /\ call'.op # "from_string"
      /\ (IsSome(scn.tg.topic) => IsTopic(Unwrap(scn.tg.topic))))
       => (IsSome(scn'.tg.topic) => IsTopic(Unwrap(scn'.tg.topic)))]_vars

-----------------------------------------------------------------------------
\* The resume cursor.

\* C30: whenever a decode call may start in a line mode, the resume cursor is
\* at most the length of the input buffer and no LF lies in the buffer before
\* the cursor.
C30_AsStated ==
  codec.state \in LineStates
    => /\ codec.next_line_index <= Len(inbuf)
       /\ \A i \in 1..Min(codec.next_line_index, Len(inbuf)) : inbuf[i] # LF

-----------------------------------------------------------------------------
\* Telegrams returned by decode.

\* C31: every telegram that a decode call returns has its topic set.
C31_AsStated ==
  (call.op = "decode" /\ ret.kind = "Telegram") => IsSome(ret.tg.topic)

-----------------------------------------------------------------------------
\* A failing expect_file.

\* C32: an expect_file call with size > 0 that fails because the file cannot
\* be created leaves the codec as it was: mode, remaining count, pathname and
\* writer.
C32_AsStated ==
  [][(ncfg' = ncfg + 1 /\ call'.op = "expect_file" /\ call'.size > 0
      /\ ret' = CreateFailed)
       => /\ codec'.state = codec.state
          /\ codec'.bin_remain = codec.bin_remain
          /\ codec'.pathname = codec.pathname
          /\ codec'.writer = codec.writer]_vars

\* What the code does: everything but the mode is as it was, and the mode is
\* File.
C32_Observed ==
  [][(ncfg' = ncfg + 1 /\ call'.op = "expect_file" /\ call'.size > 0
      /\ ret' = CreateFailed)
       => codec' = [codec EXCEPT !.state = "File"]]_vars

-----------------------------------------------------------------------------
\* The writer and the mode.

\* C33: in every reachable state a mode other than File and Writer implies
\* that no writer is held.
C33_AsStated == codec.state \notin {"File", "Writer"} => codec.writer = None

-----------------------------------------------------------------------------
\* Asking for more data.

HasLF(b) == \E i \in 1..Len(b) : b[i] = LF

\* C34: with configuration calls made only before the first decode call or
\* right after a completed value, a decode call that asks for more data in a
\* line mode leaves a buffer without LF and the cursor at the buffer length,
\* and one that asks for more data in a binary mode leaves the buffer empty.
C34_AsStated ==
  [][(Decode /\ ret'.kind = "None")
       => IF codec.state \in LineStates
          THEN ~HasLF(inbuf') /\ codec'.next_line_index = Len(inbuf')
          ELSE inbuf' = <<>>]_vars

\* What the code does: the same, except in File mode without a writer.
C34_Observed ==
  [][(Decode /\ ret'.kind = "None"
      /\ ~(codec.state = "File" /\ codec.writer = None))
       => IF codec.state \in LineStates
          THEN ~HasLF(inbuf') /\ codec'.next_line_index = Len(inbuf')
          ELSE inbuf' = <<>>]_vars

-----------------------------------------------------------------------------
\* After a line that is too long.

\* The buffer starts with more than max_line_length bytes without LF.
Stuck == Overlong(inbuf, codec.max_line_length)

\* C35: a decode call that fails because the maximum line length is exceeded
\* leaves the over-long line at the front of the buffer; from then on the
\* line stays there whatever the host appends, and every decode call in a
\* line mode fails with the same BadFormat error and changes neither the
\* buffer nor the codec, its cursor included.
C35_NoResynchronisation ==
  [][/\ (Decode /\ ret' = TooLong) => Stuck'
     /\ Stuck => Stuck'
     /\ (Stuck /\ LineDecode)
          => ret' = TooLong /\ inbuf' = inbuf /\ codec' = codec]_vars

\* With a maximum line length of MaxLine, a decode call has failed on a line
\* too long, and fails again after the host appended an LF.
C35_Witness ==
  /\ call.op = "decode"
  /\ ret = TooLong
  /\ mark.failed
  /\ codec.max_line_length = MaxLine
  /\ Len(inbuf) = MaxLine + 2
  /\ inbuf[MaxLine + 2] = LF
  /\ \A i \in 1..(MaxLine + 1) : inbuf[i] = 97

-----------------------------------------------------------------------------
\* Round trip.

EndsInCR(t) == t # <<>> /\ t[Len(t)] = CR

\* No value of the pairs holds an LF or ends in CR.
PlainValues(pairs) == \A p \in pairs : ~HasLF(p[2]) /\ ~EndsInCR(p[2])

\* The value on the wire is one the round trip is claimed for.
RoundTrips ==
  CASE scn.kind = "Telegram" ->
         /\ IsTopic(Unwrap(scn.tg.topic))
         /\ \A p \in scn.tg.params : IsKey(p[1])
         /\ PlainValues(scn.tg.params)
    [] scn.kind = "Params" ->
         /\ \A p \in scn.tg.params : IsKey(p[1])
         /\ PlainValues(scn.tg.params)
    [] OTHER ->
         /\ \A i \in 1..Len(scn.kv) :
              ~HasSpace(scn.kv[i][1]) /\ ~HasLF(scn.kv[i][1])
         /\ PlainValues({scn.kv[i] : i \in 1..Len(scn.kv)})

\* The original value, as decode returns a value of its kind.
Original ==
  CASE scn.kind = "Telegram" -> [Ret("Telegram") EXCEPT !.tg = scn.tg]
    [] scn.kind = "Params" -> [Ret("Params") EXCEPT !.params = scn.tg.params]
    [] OTHER -> [Ret("KVLines") EXCEPT !.kvlines = scn.kv]

\* C36: a telegram with a valid topic and valid keys, a map with valid keys
\* or a list whose keys hold no space, with no LF in a key or a value and no
\* value ending in CR, is returned equal to the original by the decode call
\* made in the matching mode on its last byte, however its bytes were split
\* across the earlier decode calls: no call fails, none returns another value,
\* and the input buffer is empty afterwards.
C36_RoundTrip ==
  [][(Decode /\ RoundTrips /\ codec.state = scn.kind)
       => IF wire = <<>> /\ inbuf # <<>>
          THEN ret' = Original /\ inbuf' = <<>>
          ELSE ret'.kind = "None"]_vars

\* A telegram with two parameters, one value starting with a space, has come
\* back after a decode call that had asked for more data.
C36_Witness ==
  /\ call.op = "decode"
  /\ call.resumed
  /\ scn.kind = "Telegram"
  /\ Cardinality(scn.tg.params) = 2
  /\ <<<<107>>, <<SP, 118>>>> \in scn.tg.params
  /\ ret = Original
  /\ wire = <<>>
  /\ inbuf = <<>>

\* A list with a repeated key and an empty value has come back.
C36_WitnessList ==
  /\ call.op = "decode"
  /\ scn.kind = "KVLines"
  /\ scn.kv = <<<<<<107>>, <<52>>>>, <<<<107>>, <<>>>>>>
  /\ ret = Original
  /\ inbuf = <<>>

\* Without the restriction on the values the round trip fails: a value
\* ending in CR comes back without it.
C36_WitnessCR ==
  /\ call.op = "decode"
  /\ scn.kind = "Params"
  /\ scn.tg.params = {<<<<108>>, <<118, CR>>>>}
  /\ ret = [Ret("Params") EXCEPT !.params = {<<<<108>>, <<118>>>>}]

-----------------------------------------------------------------------------
\* The internal buffer of a buffered transfer.

BufferedStates == {"Bytes", "BytesMut"}

\* C37: during a transfer configured by expect_bytes(S) or expect_bytesmut(S)
\* the length of the internal buffer plus the remaining count is S before and
\* after every decode call, and the call that returns the completed buffer
\* returns S bytes and leaves the internal buffer empty.
C37_BoundedBuffering ==
  [][(Decode /\ codec.state \in BufferedStates)
       => LET S == mark.c.bin_remain
          IN  /\ mark.c.state = codec.state
              /\ Len(codec.buf) + codec.bin_remain = S
              /\ IF ret'.kind = codec.state
                 THEN /\ Len(ret'.bytes) = S
                      /\ codec'.buf = <<>>
                      /\ codec'.bin_remain = 0
                 ELSE /\ ret'.kind = "None"
                      /\ codec'.state = codec.state
                      /\ Len(codec'.buf) + codec'.bin_remain = S
                      /\ Len(codec'.buf) <= S]_vars

\* Half of a two-byte transfer is in the internal buffer.
C37_Witness ==
  /\ call.op = "decode"
  /\ ret.kind = "None"
  /\ codec.state = "Bytes"
  /\ mark.c.bin_remain = 2
  /\ Len(codec.buf) = 1
  /\ codec.bin_remain = 1

-----------------------------------------------------------------------------
\* The length boundary.

\* C38: a decode call in a line mode on a buffer that starts with a complete
\* line takes the line when at most max_line_length bytes precede its LF, a
\* trailing CR included, and otherwise fails with BadFormat and takes
\* nothing: with a maximum of M a line of M + 1 bytes, its LF included, is
\* accepted and a line of M + 2 bytes is rejected.  With the default maximum
\* no decode call fails for a line's length.
C38_LengthBoundary ==
  [][LineDecode
       => /\ FirstLF(inbuf) > 0
               => IF FirstLF(inbuf) - 1 <= codec.max_line_length
                  THEN /\ Len(inbuf') <= Len(inbuf) - FirstLF(inbuf)
                       /\ inbuf' = DropN(inbuf, Len(inbuf) - Len(inbuf'))
                  ELSE ret' = TooLong /\ inbuf' = inbuf
          /\ codec.max_line_length = UsizeMax => ret' # TooLong]_vars

\* With a maximum of MaxLine, a topic line of MaxLine bytes and its LF has
\* been taken.
C38_Witness ==
  /\ call.op = "decode"
  /\ ret.kind = "None"
  /\ codec.max_line_length = MaxLine
  /\ Len(mark.in) = MaxLine + 1
  /\ mark.in[MaxLine + 1] = LF
  /\ inbuf = <<>>
  /\ IsSome(codec.tg.topic)
  /\ Len(Unwrap(codec.tg.topic)) = MaxLine

\* With a maximum of MaxLine, a line of MaxLine + 1 bytes and its LF, which
\* arrived at once, has been rejected.
C38_WitnessRejected ==
  /\ call.op = "decode"
  /\ ~call.resumed
  /\ ~mark.polled
  /\ ret = TooLong
  /\ codec.max_line_length = MaxLine
  /\ FirstLF(inbuf) = MaxLine + 2

-----------------------------------------------------------------------------
\* After a decode call that failed.

\* The number of bytes of b that precede the line ending at position n.
LineStart(b, n) ==
  IF \E j \in 1..(n - 1) : b[j] = LF
  THEN CHOOSE j \in 1..(n - 1) : b[j] = LF /\ \A k \in (j + 1)..(n - 1) : b[k] # LF
  ELSE 0

\* The codec as the lines of b leave it, b holding complete lines that end
\* no frame and make no call fail.
AfterLines(self, b) ==
  IF b = <<>> THEN [self EXCEPT !.next_line_index = 0]
  ELSE decode(self, b, <<>>, [ok |-> TRUE, n |-> 0]).self

\* The keys given by the key/value lines of b.
KeysIn(b) ==
  LET texts == TextsOf(b)
  IN  {PairOf(texts[i])[1] : i \in {j \in 1..Len(texts) : HasSpace(texts[j])}}

\* The pairs of acc are in hm, but for the values replaced by a line of b.
Contains(hm, acc, b) ==
  \A p \in acc : \E q \in hm : q[1] = p[1] /\ (q[2] = p[2] \/ p[1] \in KeysIn(b))

\* The step is a decode call in a line mode: no byte received and no
\* configuration call made.
LineDecodeStep ==
  /\ call'.op = "decode"
  /\ sent' = sent
  /\ ncfg' = ncfg
  /\ codec.state \in LineStates

\* C39 as amended: a decode call that fails in a line mode leaves the mode as
\* it was.  When the maximum line length is exceeded the line stays in the
\* buffer; otherwise the lines up to the failing one are consumed and the
\* codec is left as the lines before the failing one leave it, accumulator
\* included.  The value that completes a frame in which a call has failed holds
\* the topic and the entries accumulated before the completing call.
C39_FailureKeepsAccumulator ==
  [][/\ (ret'.kind = "Err" /\ LineDecodeStep)
          => /\ codec'.state = codec.state
             /\ IF ret' = TooLong
                THEN Overlong(inbuf', codec.max_line_length)
                ELSE LET n == Len(inbuf) - Len(inbuf')
                     IN  /\ n > 0
                         /\ inbuf[n] = LF
                         /\ inbuf' = DropN(inbuf, n)
                         /\ codec' = AfterLines(codec,
                                                TakeN(inbuf, LineStart(inbuf, n)))
     /\ (mark.failed /\ IsCompletion(ret') /\ LineDecodeStep)
          => LET taken == TakeN(inbuf, Len(inbuf) - Len(inbuf'))
             IN  CASE codec.state = "Telegram" ->
                        /\ IsSome(codec.tg.topic)
                             => ret'.tg.topic = codec.tg.topic
                        /\ Contains(ret'.tg.params, codec.tg.params, taken)
                   [] codec.state = "Params" ->
                        Contains(ret'.params, codec.params, taken)
                   [] OTHER ->
                        TakeN(ret'.kvlines, Len(codec.kvlines)) = codec.kvlines]_vars

\* A map was being decoded: the line "a " gave an entry, the line " " made
\* the call fail, and the entry is still in the accumulator.
C39_Witness ==
  /\ call.op = "decode"
  /\ ret.kind = "Err"
  /\ ret.err = "BadFormat"
  /\ codec.state = "Params"
  /\ codec.params = {<<<<97>>, <<>>>>}
  /\ mark.in = <<97, SP, LF, SP, LF>>
  /\ inbuf = <<>>

\* A telegram has come back with its topic after a call on a line of the
\* frame had failed.
C39_WitnessCompleted ==
  /\ call.op = "decode"
  /\ ret.kind = "Telegram"
  /\ ret.tg.topic = Some(<<97>>)
  /\ sent = 5
  /\ inbuf = <<>>
  /\ mark.in = <<>>

\* C39 as stated: a decode call that fails in a line mode leaves the mode as
\* it was, has consumed the failing line and has kept the accumulator.
C39_AsStated ==
  [][(ret'.kind = "Err" /\ LineDecodeStep)
       => LET n == Len(inbuf) - Len(inbuf')
          IN  /\ codec'.state = codec.state
              /\ n > 0
              /\ inbuf[n] = LF
              /\ codec' = AfterLines(codec, TakeN(inbuf, LineStart(inbuf, n)))]_vars


\* A decode call that fails leaves the mode as it was, in the binary modes
\* too.
FailureKeepsMode ==
  [][(ret'.kind = "Err" /\ Decode) => codec'.state = codec.state]_vars

-----------------------------------------------------------------------------
\* Eventual completion.

BinaryCompletions ==
  {"Chunk", "Bytes", "BytesMut", "File", "WriteDone", "SkipDone"}

\* A decode call has just returned the completion value of a transfer and
\* the codec is back in Telegram mode.
TransferCompleted ==
  /\ call.op = "decode"
  /\ ret.kind \in BinaryCompletions
  /\ IsCompletion(ret)
  /\ codec.state = "Telegram"

\* C40: once a binary transfer of S > 0 bytes is configured, with the host
\* reading bytes and calling decode while the buffer holds any, the transfer's
\* completion value is eventually returned, unless a write to the sink fails;
\* it is returned by the decode call that consumes the S-th payload byte,
\* which leaves the codec in Telegram mode, and by no earlier call.
C40_EventualCompletion ==
  /\ TransferUnderWay ~> (TransferCompleted \/ mark.failed)
  /\ [][(TransferUnderWay /\ Decode /\ ret' # WriteFailed)
          => IF Removed(inbuf') = mark.c.bin_remain
             THEN /\ ret'.kind = CompletionOf(mark.c.state)
                  /\ IsCompletion(ret')
                  /\ codec'.state = "Telegram"
             ELSE /\ ~IsCompletion(ret')
                  /\ Removed(inbuf') < mark.c.bin_remain
                  /\ codec'.state = mark.c.state]_vars

\* A two-byte file transfer has completed on the second of two decode calls.
C40_Witness ==
  /\ TransferCompleted
  /\ call.resumed
  /\ ret.kind = "File"
  /\ sink = <<97, 97>>
  /\ ncfg = 1


=============================================================================
